---- MODULE Spec2Model ----
(***************************************************************************)
(* The asynchronous media-processing pipeline of media-inbox: the Bull     *)
(* queue "media-processing" as JobsService drives it, the handler          *)
(* MediaProcessingProcessor.processMedia as a step-by-step process (one    *)
(* step per awaited call), the Asset and Job rows it writes, and the       *)
(* owner's and operator's operations that touch the same state.            *)
(***************************************************************************)
EXTENDS Integers, Sequences, FiniteSets, TLC

\* ------------------------------------------------------------------------
\* Bounds of the model
\* ------------------------------------------------------------------------
\* I/O calls (database, object store) that the environment lets fail in one run
MaxFaults == 1
\* handler invocations in one run
MaxRuns == 3
\* retryFailedJob requests in flight at once
MaxRetrying == 2
\* length of the object keys the key derivation is explored on
MaxKeyLen == 3

\* largest of the small image and target sizes the thumbnail arithmetic is
\* explored on (next to 50, 200, 300 and 400)
MaxDim == 4
\* logins, and the milliseconds the clock runs for, in the refresh-token model
MaxLogins == 2
MaxNow == 2
\* worker processes that exit
MaxExits == 2

\* ------------------------------------------------------------------------
\* Program constants
\* ------------------------------------------------------------------------
\* defaultJobOptions.attempts
Attempts == 3
\* the largest fileSize completeUpload accepts
MaxFileSize == 104857600

Workers == {"w1", "w2"}
AssetIds == {"a1"}

NoRow == [status |-> "NONE"]
NoKey == <<>>
NoAsset == "none"
NoWorker == "none"

\* ------------------------------------------------------------------------
\* Object keys are character sequences
\* ------------------------------------------------------------------------
Key1 == <<"u", "/", "1", ".", "j", "p", "g">>
Key2 == <<"v", ".", "2", "/", "x">>

\* The upload-complete requests the clients send: objectKey, contentType and
\* what the bytes they uploaded decode to ("none": no decodable raster image).
Dtos ==
    { [objectKey |-> Key1, contentType |-> "image/jpeg", fileSize |-> 2048,
       bytes |-> "jpeg"],
      [objectKey |-> Key2, contentType |-> "image/jpeg", fileSize |-> 2048,
       bytes |-> "none"] }

\* the authenticated users; the pipeline is followed for the uploads of one
Users == {"u1", "u2"}
Uploader == "u1"

VARIABLES
    assets,         \* Asset rows: AssetIds -> row or NoRow
    jobRows,        \* Job rows in creation order
    tasks,          \* the queue's jobs in insertion order
    exec,           \* per worker: the processMedia invocation in progress
    isShuttingDown, \* per worker: MediaProcessingProcessor.isShuttingDown
    blobs,          \* the object store: the objects present, as [key, bytes]
    uploading,      \* completeUpload requests between asset.create and enqueue
    retrying,       \* retryFailedJob requests past the state check, per job id
    lastCall,       \* what the JobsService call of the last step returned or threw
    faults,         \* failed I/O calls so far
    runs,           \* handler invocations so far
    sessions,       \* Session rows in creation order
    refreshing,     \* per client: the refreshToken request in progress
    now,            \* the clock, in milliseconds
    exits,          \* worker processes that have exited so far
    cache,          \* the rate-limit counter in Redis: value and expiry, or NoEntry
    checking,       \* per client: the checkRateLimit call in progress
    admitted        \* the times at which checkRateLimit let a request pass

vars == <<assets, jobRows, tasks, exec, isShuttingDown, blobs, uploading,
          retrying, lastCall, faults, runs, sessions, refreshing, now,
          exits, cache, checking, admitted>>

\* what a JobsService call returned ("ok") or threw (the error message)
Call(op, id, result) == [op |-> op, id |-> id, result |-> result]

NoCall == Call("none", "", "")

JobIds == { "media-" \o a : a \in AssetIds }

\* jobId: `media-${jobData.assetId}`
JobIdOf(a) == "media-" \o a

\* ------------------------------------------------------------------------
\* Pure helpers of the processor and of JobsService
\* ------------------------------------------------------------------------
\* index of the last "." of key, 0 when there is none
LastDot(key) ==
    LET dots == { i \in 1..Len(key) : key[i] = "." }
    IN  IF dots = {} THEN 0 ELSE CHOOSE i \in dots : \A j \in dots : j <= i

\* originalKey.replace(/\.[^/.]+$/, ''): a final "." followed by one or more
\* characters that are neither "/" nor "." is cut off
StripExtension(key) ==
    LET d == LastDot(key)
    IN  IF d > 0 /\ d < Len(key) /\ \A j \in (d + 1)..Len(key) : key[j] # "/"
        THEN SubSeq(key, 1, d - 1)
        ELSE key

FormatChars(format) ==
    IF format = "jpeg" THEN <<"j", "p", "e", "g">>
    ELSE IF format = "png" THEN <<"p", "n", "g">>
    ELSE IF format = "gif" THEN <<"g", "i", "f">>
    ELSE <<"w", "e", "b", "p">>

\* (mutant) the key carries the number of the handler invocation
GenerateThumbnailKeyPerRun(originalKey, format) ==
    StripExtension(originalKey) \o <<"_", IF runs = 1 THEN "1" ELSE "n", ".">>
        \o FormatChars(format)

\* `${baseKey}_thumb.${format}`
GenerateThumbnailKey(originalKey, format) ==
    StripExtension(originalKey) \o <<"_", "t", "h", "u", "m", "b", ".">>
        \o FormatChars(format)

\* the content types validateFileType allows
AllowedTypes ==
    {"image/jpeg", "image/png", "image/gif", "image/webp", "application/pdf",
     "text/plain", "application/msword",
     "application/vnd.openxmlformats-officedocument.wordprocessingml.document"}

\* mimeType.startsWith('image/')
StartsWithImage(mimeType) ==
    mimeType \in {"image/jpeg", "image/png", "image/gif", "image/webp"}

\* mimeType.includes('pdf') || mimeType.includes('document')
IncludesPdfOrDocument(mimeType) ==
    mimeType \in {"application/pdf",
        "application/vnd.openxmlformats-officedocument.wordprocessingml.document"}

\* (mutant) the order of the three classes is reversed
GetJobPriorityReversed(mimeType) ==
    IF StartsWithImage(mimeType) THEN 3
    ELSE IF IncludesPdfOrDocument(mimeType) THEN 2
    ELSE 1

\* lower number = higher priority
GetJobPriority(mimeType) ==
    IF StartsWithImage(mimeType) THEN 1
    ELSE IF IncludesPdfOrDocument(mimeType) THEN 2
    ELSE 3

\* ------------------------------------------------------------------------
\* The queue (Bull) as JobsService uses it
\* ------------------------------------------------------------------------
HasJob(q, id) == \E i \in 1..Len(q) : q[i].id = id

\* queue.getJob(jobId): position of the job, 0 when there is none
GetJob(q, id) ==
    IF HasJob(q, id) THEN CHOOSE i \in 1..Len(q) : q[i].id = id /\ \A j \in 1..(i - 1) : q[j].id # id
    ELSE 0

NewTask(id, data, priority) ==
    [id |-> id, data |-> data, state |-> "delayed", attemptsMade |-> 0,
     priority |-> priority, lock |-> NoWorker, retried |-> FALSE,
     stalledCounter |-> 0]

\* (mutant) the jobId option is not passed: every add creates a job
QueueAddAlways(q, id, data, priority) == Append(q, NewTask(id, data, priority))

\* queue.add(name, data, {jobId, priority, delay}): a job id that already
\* exists, in whatever state, is not added again; a new job starts delayed
QueueAdd(q, id, data, priority) ==
    IF HasJob(q, id) THEN q ELSE Append(q, NewTask(id, data, priority))

\* (await job.getState()) === 'failed'
IsFailed(q, i) == q[i].state = "failed"

\* (mutant) retry moves the job back to wait whatever its state
CanRetryAnyState(q, i) == i # 0

\* job.retry(): only a failed job is moved back to wait, attemptsMade is kept
CanRetry(q, i) == i # 0 /\ q[i].state = "failed"

\* (mutant) retry starts the attempt count over
JobRetryResetAttempts(q, i) ==
    [q EXCEPT ![i].state = "waiting", ![i].retried = TRUE, ![i].attemptsMade = 0]

JobRetry(q, i) == [q EXCEPT ![i].state = "waiting", ![i].retried = TRUE]

\* (mutant) a job is removed although a worker holds it
CanRemoveLocked(q, i) == i # 0

\* job.remove(): a job locked by a worker cannot be removed
CanRemove(q, i) == i # 0 /\ q[i].lock = NoWorker

JobRemove(q, i) == SubSeq(q, 1, i - 1) \o SubSeq(q, i + 1, Len(q))

\* (mutant) one automatic attempt too many
MoveToFailedOffByOne(t) ==
    LET made == t.attemptsMade + 1
    IN  [t EXCEPT !.attemptsMade = made, !.lock = NoWorker,
                  !.state = IF made <= Attempts THEN "delayed" ELSE "failed"]

\* a failed attempt: retried after a backoff delay while attempts remain
MoveToFailed(t) ==
    LET made == t.attemptsMade + 1
    IN  [t EXCEPT !.attemptsMade = made, !.lock = NoWorker,
                  !.state = IF made < Attempts THEN "delayed" ELSE "failed"]

MoveToCompleted(t) == [t EXCEPT !.state = "completed", !.lock = NoWorker]

\* getQueueStats()
CountState(q, s) == Cardinality({ i \in 1..Len(q) : q[i].state = s })

GetQueueStats(q) ==
    [waiting |-> CountState(q, "waiting"), active |-> CountState(q, "active"),
     completed |-> CountState(q, "completed"), failed |-> CountState(q, "failed"),
     delayed |-> CountState(q, "delayed")]

\* ------------------------------------------------------------------------
\* AuthService: the clients that hold refresh tokens, and a client's
\* refreshToken request before it starts
\* ------------------------------------------------------------------------
Clients == {"c1", "c2"}

NoToken == [sub |-> "", iat |-> 0]

NoRefresh ==
    [pc |-> "idle", refreshToken |-> NoToken, session |-> 0,
     newRefreshToken |-> NoToken, error |-> ""]

\* no rate-limit counter is stored (never set, or expired)
NoEntry == [value |-> 0, expires |-> 0]

\* no checkRateLimit call in progress
NotChecking == [pc |-> "idle", currentCount |-> 0]

\* ------------------------------------------------------------------------
\* Initial state
\* ------------------------------------------------------------------------
Idle ==
    [pc |-> "idle", jobId |-> "", assetId |-> NoAsset, objectKey |-> NoKey,
     dbJob |-> 0, err |-> "", thumbnailKey |-> NoKey, wroteProcessing |-> FALSE]

Init ==
    /\ assets = [a \in AssetIds |-> NoRow]
    /\ jobRows = <<>>
    /\ tasks = <<>>
    /\ exec = [w \in Workers |-> Idle]
    /\ isShuttingDown = [w \in Workers |-> FALSE]
    /\ blobs = {}
    /\ uploading = {}
    /\ retrying = [id \in JobIds |-> 0]
    /\ lastCall = NoCall
    /\ faults = 0
    /\ runs = 0
    /\ sessions = <<>>
    /\ refreshing = [c \in Clients |-> NoRefresh]
    /\ now = 0
    /\ exits = 0
    /\ cache = NoEntry
    /\ checking = [c \in Clients |-> NotChecking]
    /\ admitted = <<>>

\* ------------------------------------------------------------------------
\* UploadsService.completeUpload
\* ------------------------------------------------------------------------
JobData(a) ==
    [assetId |-> a, objectKey |-> assets[a].objectKey, mimeType |-> assets[a].mime]

\* (mutant) the upper limit of the size check is left out
ValidFileSizeNoLimit(size) == size > 0

\* fileSize <= 0 || fileSize > 104857600 is refused
ValidFileSize(size) == size > 0 /\ size <= MaxFileSize

\* (mutant) object_key carries no unique index
KeyTakenNever(key) == FALSE

\* the unique index on assets.object_key: an Asset row holds this key
KeyTaken(key) ==
    \E b \in DOMAIN assets : assets[b] # NoRow /\ assets[b].objectKey = key

\* validateFileType and the size check, then prisma.asset.create, which the
\* unique index on object_key lets succeed only for a key no row holds;
\* a is the id the new row gets
CompleteUploadCreate(a, dto, userId) ==
    /\ assets[a] = NoRow
    /\ dto.contentType \in AllowedTypes
    /\ ValidFileSize(dto.fileSize)
    /\ ~KeyTaken(dto.objectKey)
    /\ assets' = [assets EXCEPT ![a] =
                    [status |-> "PENDING", objectKey |-> dto.objectKey,
                     mime |-> dto.contentType, ownerId |-> userId,
                     thumbKey |-> NoKey, thumbnailGenerated |-> FALSE]]
    /\ blobs' = blobs \cup {[key |-> dto.objectKey, bytes |-> dto.bytes]}
    /\ uploading' = uploading \cup {a}
    /\ lastCall' = NoCall
    /\ UNCHANGED <<cache, checking, admitted, exits, sessions, refreshing, now, jobRows, tasks, exec, isShuttingDown, retrying,
                   faults, runs>>

\* JobsService.addMediaProcessingJob
AddMediaProcessingJob(a) ==
    /\ tasks' = QueueAdd(tasks, JobIdOf(a), JobData(a), GetJobPriority(assets[a].mime))
    /\ lastCall' = Call("add", JobIdOf(a), "ok")

\* the enqueue that ends completeUpload
CompleteUploadEnqueue(a) ==
    /\ a \in uploading
    /\ assets[a] # NoRow
    /\ AddMediaProcessingJob(a)
    /\ uploading' = uploading \ {a}
    /\ UNCHANGED <<cache, checking, admitted, exits, sessions, refreshing, now, assets, jobRows, exec, isShuttingDown, blobs, retrying,
                   faults, runs>>

\* a further enqueue for an asset that already went through completeUpload
Enqueue(a) ==
    /\ a \notin uploading
    /\ assets[a] # NoRow
    /\ AddMediaProcessingJob(a)
    /\ UNCHANGED <<cache, checking, admitted, exits, sessions, refreshing, now, assets, jobRows, exec, isShuttingDown, blobs, uploading,
                   retrying, faults, runs>>

\* ------------------------------------------------------------------------
\* JobsService.retryFailedJob and removeJob
\* ------------------------------------------------------------------------
\* getJob and the getState() check
RetryCheck(id) ==
    LET i == GetJob(tasks, id)
    IN  /\ retrying[id] < MaxRetrying
        /\ IF i = 0
           THEN lastCall' = Call("retry", id, "Job not found") /\ UNCHANGED retrying
           ELSE IF ~IsFailed(tasks, i)
           THEN lastCall' = Call("retry", id, "Job is not in failed state")
                /\ UNCHANGED retrying
           ELSE retrying' = [retrying EXCEPT ![id] = @ + 1] /\ lastCall' = NoCall
        /\ UNCHANGED <<cache, checking, admitted, exits, sessions, refreshing, now, assets, jobRows, tasks, exec, isShuttingDown, blobs,
                       uploading, faults, runs>>

\* (mutant) a retry marks the asset READY
RetryCallMarksReady(id) ==
    LET i == GetJob(tasks, id)
    IN  /\ retrying[id] > 0
        /\ retrying' = [retrying EXCEPT ![id] = @ - 1]
        /\ IF CanRetry(tasks, i)
           THEN /\ tasks' = JobRetry(tasks, i)
                /\ assets' = [assets EXCEPT ![tasks[i].data.assetId].status = "READY"]
                /\ lastCall' = Call("retry", id, "ok")
           ELSE /\ tasks' = tasks
                /\ assets' = assets
                /\ lastCall' = Call("retry", id, "Could not retry job")
        /\ UNCHANGED <<cache, checking, admitted, exits, sessions, refreshing, now, jobRows, exec, isShuttingDown, blobs, uploading,
                       faults, runs>>

\* await job.retry()
RetryCall(id) ==
    LET i == GetJob(tasks, id)
    IN  /\ retrying[id] > 0
        /\ retrying' = [retrying EXCEPT ![id] = @ - 1]
        /\ IF CanRetry(tasks, i)
           THEN tasks' = JobRetry(tasks, i) /\ lastCall' = Call("retry", id, "ok")
           ELSE tasks' = tasks /\ lastCall' = Call("retry", id, "Could not retry job")
        /\ UNCHANGED <<cache, checking, admitted, exits, sessions, refreshing, now, assets, jobRows, exec, isShuttingDown, blobs, uploading,
                       faults, runs>>

\* (mutant) removing a job puts its asset back to PENDING
RemoveJobResetsAsset(id) ==
    LET i == GetJob(tasks, id)
    IN  /\ IF i = 0
           THEN /\ tasks' = tasks
                /\ assets' = assets
                /\ lastCall' = Call("remove", id, "Job not found")
           ELSE IF CanRemove(tasks, i)
           THEN /\ tasks' = JobRemove(tasks, i)
                /\ assets' = [assets EXCEPT ![tasks[i].data.assetId].status = "PENDING"]
                /\ lastCall' = Call("remove", id, "ok")
           ELSE /\ tasks' = tasks
                /\ assets' = assets
                /\ lastCall' = Call("remove", id, "Could not remove job")
        /\ UNCHANGED <<cache, checking, admitted, exits, sessions, refreshing, now, jobRows, exec, isShuttingDown, blobs, uploading,
                       retrying, faults, runs>>

\* JobsService.removeJob: getJob, then job.remove()
RemoveJob(id) ==
    LET i == GetJob(tasks, id)
    IN  /\ IF i = 0
           THEN tasks' = tasks /\ lastCall' = Call("remove", id, "Job not found")
           ELSE IF CanRemove(tasks, i)
           THEN tasks' = JobRemove(tasks, i) /\ lastCall' = Call("remove", id, "ok")
           ELSE tasks' = tasks /\ lastCall' = Call("remove", id, "Could not remove job")
        /\ UNCHANGED <<cache, checking, admitted, exits, sessions, refreshing, now, assets, jobRows, exec, isShuttingDown, blobs, uploading,
                       retrying, faults, runs>>

\* ------------------------------------------------------------------------
\* AssetsService.updateAssetStatus (the owner's status override)
\* ------------------------------------------------------------------------
Statuses == {"PENDING", "PROCESSING", "READY", "FAILED"}

\* (mutant) the owner check is left out
IsOwnerAlways(row, userId) == TRUE

\* asset.ownerId !== userId throws ForbiddenException
IsOwner(row, userId) == row.ownerId = userId

AccessDenied == "Access denied to this asset"

\* findUnique, the owner check, then prisma.asset.update({status})
UpdateAssetStatus(a, userId, status) ==
    /\ assets[a] # NoRow
    /\ IF ~IsOwner(assets[a], userId)
       THEN /\ lastCall' = Call("updateAssetStatus", a, AccessDenied)
            /\ UNCHANGED assets
       ELSE /\ assets' = [assets EXCEPT ![a].status = status]
            /\ lastCall' = NoCall
    /\ UNCHANGED <<cache, checking, admitted, exits, sessions, refreshing, now, jobRows, tasks, exec, isShuttingDown, blobs, uploading,
                   retrying, faults, runs>>

\* ------------------------------------------------------------------------
\* The queue's own steps
\* ------------------------------------------------------------------------
\* the delay of a delayed job (initial delay or backoff) has elapsed
PromoteDelayed(i) ==
    /\ i \in 1..Len(tasks)
    /\ tasks[i].state = "delayed"
    /\ tasks' = [tasks EXCEPT ![i].state = "waiting"]
    /\ lastCall' = NoCall
    /\ UNCHANGED <<cache, checking, admitted, exits, sessions, refreshing, now, assets, jobRows, exec, isShuttingDown, blobs, uploading,
                   retrying, faults, runs>>

\* a free worker takes a waiting job of the best priority and locks it;
\* the queue then calls processMedia(job)
TakeJob(w, i) ==
    /\ exec[w].pc = "idle"
    /\ i \in 1..Len(tasks)
    /\ tasks[i].state = "waiting"
    /\ \A j \in 1..Len(tasks) :
          tasks[j].state = "waiting" => tasks[i].priority <= tasks[j].priority
    /\ tasks' = [tasks EXCEPT ![i].state = "active", ![i].lock = w]
    /\ exec' = [exec EXCEPT ![w] =
                  [Idle EXCEPT !.pc = "start", !.jobId = tasks[i].id,
                               !.assetId = tasks[i].data.assetId,
                               !.objectKey = tasks[i].data.objectKey]]
    /\ lastCall' = NoCall
    /\ UNCHANGED <<cache, checking, admitted, exits, sessions, refreshing, now, assets, jobRows,
                   isShuttingDown, blobs, uploading, retrying, faults>>

\* TakeJob, for a bounded number of handler invocations
Claim(w, i) ==
    /\ runs < MaxRuns
    /\ TakeJob(w, i)
    /\ runs' = runs + 1

\* the handler has settled: the queue records the outcome and frees the worker
Finish(w) ==
    /\ exec[w].pc \in {"resolved", "rejected"}
    /\ tasks' = [i \in 1..Len(tasks) |->
                    IF tasks[i].lock # w THEN tasks[i]
                    ELSE IF exec[w].pc = "resolved" THEN MoveToCompleted(tasks[i])
                    ELSE MoveToFailed(tasks[i])]
    /\ exec' = [exec EXCEPT ![w] = Idle]
    /\ lastCall' = NoCall
    /\ UNCHANGED <<cache, checking, admitted, exits, sessions, refreshing, now, assets, jobRows, isShuttingDown, blobs, uploading,
                   retrying, faults, runs>>

\* ------------------------------------------------------------------------
\* MediaProcessingProcessor.processMedia, one action per awaited call
\* ------------------------------------------------------------------------
CanFail == faults < MaxFaults

ShuttingDownError == "Application is shutting down"

\* where a failure inside the try block continues
Caught(w, error) == [exec[w] EXCEPT !.pc = "catchAsset", !.err = error]

\* (mutant) a failure of job.create ends the attempt
StartNeedsRow(w) ==
    /\ exec[w].pc = "start"
    /\ IF isShuttingDown[w]
       THEN /\ exec' = [exec EXCEPT ![w].pc = "rejected",
                                    ![w].err = ShuttingDownError]
            /\ UNCHANGED <<cache, checking, admitted, exits, sessions, refreshing, now, jobRows, faults>>
       ELSE \/ /\ jobRows' = Append(jobRows,
                     [assetId |-> exec[w].assetId, state |-> "ACTIVE",
                      attempts |-> 0, lastError |-> ""])
               /\ exec' = [exec EXCEPT ![w].pc = "setProcessing",
                                       ![w].dbJob = Len(jobRows) + 1]
               /\ UNCHANGED faults
            \/ /\ CanFail
               /\ faults' = faults + 1
               /\ exec' = [exec EXCEPT ![w] = Caught(w, "I/O error")]
               /\ UNCHANGED jobRows
    /\ lastCall' = NoCall
    /\ UNCHANGED <<cache, checking, admitted, exits, sessions, refreshing, now, assets, tasks, isShuttingDown, blobs, uploading, retrying,
                   runs>>

\* the shutdown guard, then prisma.job.create (best-effort)
Start(w) ==
    /\ exec[w].pc = "start"
    /\ IF isShuttingDown[w]
       THEN /\ exec' = [exec EXCEPT ![w].pc = "rejected",
                                    ![w].err = ShuttingDownError]
            /\ UNCHANGED <<cache, checking, admitted, exits, sessions, refreshing, now, jobRows, faults>>
       ELSE \/ /\ jobRows' = Append(jobRows,
                     [assetId |-> exec[w].assetId, state |-> "ACTIVE",
                      attempts |-> 0, lastError |-> ""])
               /\ exec' = [exec EXCEPT ![w].pc = "setProcessing",
                                       ![w].dbJob = Len(jobRows) + 1]
               /\ UNCHANGED faults
            \/ /\ CanFail
               /\ faults' = faults + 1
               /\ exec' = [exec EXCEPT ![w].pc = "setProcessing"]
               /\ UNCHANGED jobRows
    /\ lastCall' = NoCall
    /\ UNCHANGED <<cache, checking, admitted, exits, sessions, refreshing, now, assets, tasks, isShuttingDown, blobs, uploading, retrying,
                   runs>>

\* (mutant) a failure of the PROCESSING write is swallowed
SetProcessingSwallow(w) ==
    LET a == exec[w].assetId
    IN  /\ exec[w].pc = "setProcessing"
        /\ \/ /\ assets[a] # NoRow
              /\ assets' = [assets EXCEPT ![a].status = "PROCESSING"]
              /\ exec' = [exec EXCEPT ![w].pc = "download",
                                      ![w].wroteProcessing = TRUE]
              /\ UNCHANGED faults
           \/ /\ CanFail
              /\ faults' = faults + 1
              /\ exec' = [exec EXCEPT ![w].pc = "download"]
              /\ UNCHANGED assets
        /\ lastCall' = NoCall
        /\ UNCHANGED <<cache, checking, admitted, exits, sessions, refreshing, now, jobRows, tasks, isShuttingDown, blobs, uploading,
                       retrying, runs>>

\* prisma.asset.update({status: 'PROCESSING'})
SetProcessing(w) ==
    LET a == exec[w].assetId
    IN  /\ exec[w].pc = "setProcessing"
        /\ \/ /\ assets[a] # NoRow
              /\ assets' = [assets EXCEPT ![a].status = "PROCESSING"]
              /\ exec' = [exec EXCEPT ![w].pc = "download",
                                      ![w].wroteProcessing = TRUE]
              /\ UNCHANGED faults
           \/ /\ CanFail
              /\ faults' = faults + 1
              /\ exec' = [exec EXCEPT ![w] = Caught(w, "I/O error")]
              /\ UNCHANGED assets
        /\ lastCall' = NoCall
        /\ UNCHANGED <<cache, checking, admitted, exits, sessions, refreshing, now, jobRows, tasks, isShuttingDown, blobs, uploading,
                       retrying, runs>>

\* the bytes stored under key
ObjectAt(key) == CHOOSE o \in blobs : o.key = key

\* s3Service.downloadObjectAsBuffer, then detectImageFormat (sharp metadata
\* of the buffer), generateThumbnail and generateThumbnailKey
Download(w) ==
    LET key == exec[w].objectKey
    IN  /\ exec[w].pc = "download"
        /\ \/ /\ ObjectAt(key).bytes # "none"
              /\ exec' = [exec EXCEPT ![w].pc = "upload",
                            ![w].thumbnailKey =
                                GenerateThumbnailKey(key, ObjectAt(key).bytes)]
              /\ UNCHANGED faults
           \/ /\ ObjectAt(key).bytes = "none"
              /\ exec' = [exec EXCEPT ![w] =
                            Caught(w, "Input buffer contains unsupported image format")]
              /\ UNCHANGED faults
           \/ /\ CanFail
              /\ faults' = faults + 1
              /\ exec' = [exec EXCEPT ![w] = Caught(w, "I/O error")]
        /\ lastCall' = NoCall
        /\ UNCHANGED <<cache, checking, admitted, exits, sessions, refreshing, now, assets, jobRows, tasks, isShuttingDown, blobs, uploading,
                       retrying, runs>>

\* s3Service.uploadObject(thumbnailKey, ...)
Upload(w) ==
    /\ exec[w].pc = "upload"
    /\ \/ /\ blobs' = { o \in blobs : o.key # exec[w].thumbnailKey }
                        \cup {[key |-> exec[w].thumbnailKey, bytes |-> "jpeg"]}
          /\ exec' = [exec EXCEPT ![w].pc = "setReady"]
          /\ UNCHANGED faults
       \/ /\ CanFail
          /\ faults' = faults + 1
          /\ exec' = [exec EXCEPT ![w] = Caught(w, "I/O error")]
          /\ UNCHANGED blobs
    /\ lastCall' = NoCall
    /\ UNCHANGED <<cache, checking, admitted, exits, sessions, refreshing, now, assets, jobRows, tasks, isShuttingDown, uploading, retrying,
                   runs>>

\* prisma.asset.update({status: 'READY', thumbKey, meta})
ReadyRow(row, key) ==
    [row EXCEPT !.status = "READY", !.thumbKey = key, !.thumbnailGenerated = TRUE]

SetReady(w) ==
    LET a == exec[w].assetId
    IN  /\ exec[w].pc = "setReady"
        /\ \/ /\ assets[a] # NoRow
              /\ assets' = [assets EXCEPT ![a] = ReadyRow(@, exec[w].thumbnailKey)]
              /\ exec' = [exec EXCEPT ![w].pc =
                            IF exec[w].dbJob # 0 THEN "jobCompleted" ELSE "resolved"]
              /\ UNCHANGED faults
           \/ /\ CanFail
              /\ faults' = faults + 1
              /\ exec' = [exec EXCEPT ![w] = Caught(w, "I/O error")]
              /\ UNCHANGED assets
        /\ lastCall' = NoCall
        /\ UNCHANGED <<cache, checking, admitted, exits, sessions, refreshing, now, jobRows, tasks, isShuttingDown, blobs, uploading,
                       retrying, runs>>

\* (mutant) the success path returns without recording COMPLETED
JobCompletedSkip(w) ==
    /\ exec[w].pc = "jobCompleted"
    /\ exec' = [exec EXCEPT ![w].pc = "resolved"]
    /\ lastCall' = NoCall
    /\ UNCHANGED <<cache, checking, admitted, exits, sessions, refreshing, now, assets, jobRows, tasks, isShuttingDown, blobs, uploading,
                   retrying, faults, runs>>

\* if (dbJob) prisma.job.update({state: 'COMPLETED'})
JobCompleted(w) ==
    /\ exec[w].pc = "jobCompleted"
    /\ \/ /\ jobRows' = [jobRows EXCEPT ![exec[w].dbJob].state = "COMPLETED"]
          /\ exec' = [exec EXCEPT ![w].pc = "resolved"]
          /\ UNCHANGED faults
       \/ /\ CanFail
          /\ faults' = faults + 1
          /\ exec' = [exec EXCEPT ![w] = Caught(w, "I/O error")]
          /\ UNCHANGED jobRows
    /\ lastCall' = NoCall
    /\ UNCHANGED <<cache, checking, admitted, exits, sessions, refreshing, now, assets, tasks, isShuttingDown, blobs, uploading, retrying,
                   runs>>

\* (mutant) the catch block puts the asset back to PENDING
FailedRowPending(row) == [row EXCEPT !.status = "PENDING"]

\* catch: prisma.asset.update({status: 'FAILED'}); a failure of this call
\* leaves the catch block at once
FailedRow(row) == [row EXCEPT !.status = "FAILED"]

CatchAsset(w) ==
    LET a == exec[w].assetId
    IN  /\ exec[w].pc = "catchAsset"
        /\ \/ /\ assets[a] # NoRow
              /\ assets' = [assets EXCEPT ![a] = FailedRow(@)]
              /\ exec' = [exec EXCEPT ![w].pc =
                            IF exec[w].dbJob # 0 THEN "catchJob" ELSE "rejected"]
              /\ UNCHANGED faults
           \/ /\ CanFail
              /\ faults' = faults + 1
              /\ exec' = [exec EXCEPT ![w].pc = "rejected",
                                      ![w].err = "I/O error"]
              /\ UNCHANGED assets
        /\ lastCall' = NoCall
        /\ UNCHANGED <<cache, checking, admitted, exits, sessions, refreshing, now, jobRows, tasks, isShuttingDown, blobs, uploading,
                       retrying, runs>>

\* catch: if (dbJob) prisma.job.update({state: 'FAILED', lastError}); throw
CatchJob(w) ==
    /\ exec[w].pc = "catchJob"
    /\ \/ /\ jobRows' = [jobRows EXCEPT ![exec[w].dbJob].state = "FAILED",
                                        ![exec[w].dbJob].lastError = exec[w].err]
          /\ exec' = [exec EXCEPT ![w].pc = "rejected"]
          /\ UNCHANGED faults
       \/ /\ CanFail
          /\ faults' = faults + 1
          /\ exec' = [exec EXCEPT ![w].pc = "rejected",
                                  ![w].err = "I/O error"]
          /\ UNCHANGED jobRows
    /\ lastCall' = NoCall
    /\ UNCHANGED <<cache, checking, admitted, exits, sessions, refreshing, now, assets, tasks, isShuttingDown, blobs, uploading, retrying,
                   runs>>

\* MediaProcessingProcessor.onApplicationShutdown
OnApplicationShutdown(w) ==
    /\ ~isShuttingDown[w]
    /\ isShuttingDown' = [isShuttingDown EXCEPT ![w] = TRUE]
    /\ lastCall' = NoCall
    /\ UNCHANGED <<cache, checking, admitted, exits, sessions, refreshing, now, assets, jobRows, tasks, exec, blobs, uploading, retrying,
                   faults, runs>>

\* ------------------------------------------------------------------------
\* Specification
\* ------------------------------------------------------------------------
Next ==
    \/ \E a \in AssetIds, dto \in Dtos : CompleteUploadCreate(a, dto, Uploader)
    \/ \E a \in AssetIds : CompleteUploadEnqueue(a)
    \/ \E a \in AssetIds : Enqueue(a)
    \/ \E id \in JobIds : RetryCheck(id)
    \/ \E id \in JobIds : RetryCall(id)
    \/ \E id \in JobIds : RemoveJob(id)
    \/ \E a \in AssetIds, status \in Statuses :
          UpdateAssetStatus(a, Uploader, status)
    \/ \E i \in 1..Len(tasks) : PromoteDelayed(i)
    \/ \E w \in Workers, i \in 1..Len(tasks) : Claim(w, i)
    \/ \E w \in Workers : Finish(w)
    \/ \E w \in Workers : Start(w)
    \/ \E w \in Workers : SetProcessing(w)
    \/ \E w \in Workers : Download(w)
    \/ \E w \in Workers : Upload(w)
    \/ \E w \in Workers : SetReady(w)
    \/ \E w \in Workers : JobCompleted(w)
    \/ \E w \in Workers : CatchAsset(w)
    \/ \E w \in Workers : CatchJob(w)
    \/ \E w \in Workers : OnApplicationShutdown(w)

Spec == Init /\ [][Next]_vars

\* ------------------------------------------------------------------------
\* Vocabulary of the properties
\* ------------------------------------------------------------------------
\* worker w is inside processMedia
Executing(w) == exec[w].pc \notin {"idle", "resolved", "rejected"}

\* processMedia of worker w has settled and the queue has not yet recorded it
Settled(w) == exec[w].pc \in {"resolved", "rejected"}

\* the invocation of worker w was turned away by the shutdown guard
Refused(w) == exec[w].pc = "rejected" /\ exec[w].err = ShuttingDownError

\* the step taken is a worker's successful prisma.asset.update from pc
AssetWrite(w, pc) ==
    /\ exec[w].pc = pc
    /\ exec'[w].pc # pc
    /\ faults' = faults

Outstanding(q, id) ==
    { i \in 1..Len(q) : q[i].id = id /\ q[i].state \in {"waiting", "active"} }

\* ------------------------------------------------------------------------
\* C1: after every pipeline execution has finished, by success or by a
\* failure at any step, the asset's status is READY or FAILED (it is never
\* left at PROCESSING).
\* ------------------------------------------------------------------------
C1_TerminalStatus ==
    \A w \in Workers :
        Settled(w) /\ ~Refused(w) /\ assets[exec[w].assetId] # NoRow
            => assets[exec[w].assetId].status \in {"READY", "FAILED"}

\* ------------------------------------------------------------------------
\* C4: on a failure at any step of an execution the asset ends FAILED, the
\* attempt's Job row ends FAILED with a non-empty lastError, and processMedia
\* rejects; no failure is swallowed.
\* ------------------------------------------------------------------------
C4_FailureRecorded ==
    \A w \in Workers :
        /\ exec[w].pc = "resolved" => exec[w].err = ""
        /\ exec[w].pc = "rejected" /\ ~Refused(w) =>
              /\ assets[exec[w].assetId].status = "FAILED"
              /\ exec[w].dbJob # 0 =>
                    /\ jobRows[exec[w].dbJob].state = "FAILED"
                    /\ jobRows[exec[w].dbJob].lastError # ""

\* ------------------------------------------------------------------------
\* C8: a task handed to processMedia while the worker is shutting down is
\* refused before any work starts and remains WAITING in the queue: once the
\* refusal is recorded the task is waiting again, neither delayed nor failed.
\* ------------------------------------------------------------------------
C8_RefusedStaysWaiting ==
    [][\A w \in Workers :
          Refused(w) /\ exec'[w].pc = "idle" =>
              \A i \in 1..Len(tasks) :
                  tasks[i].lock = w => tasks'[i].state = "waiting"]_vars

\* ------------------------------------------------------------------------
\* C10: in every reachable state, for an image asset, thumbKey set implies
\* status READY, across successes, failures after the READY write, and
\* retries: no write of a worker leaves an image asset with a thumbKey and a
\* status other than READY.
\* ------------------------------------------------------------------------
ThumbKeyImpliesReady(row) ==
    row # NoRow /\ StartsWithImage(row.mime) /\ row.thumbKey # NoKey
        => row.status = "READY"

C10_ThumbKeyImpliesReady ==
    [][\A w \in Workers :
          \/ AssetWrite(w, "setProcessing")
          \/ AssetWrite(w, "setReady")
          \/ AssetWrite(w, "catchAsset")
          => ThumbKeyImpliesReady(assets'[exec[w].assetId])]_vars

\* ------------------------------------------------------------------------
\* C2: idempotent enqueue. After any sequence of enqueue, retry, remove and
\* worker steps there is at most one outstanding (waiting or active) task
\* per job id, and an enqueue for an asset whose task is waiting or active
\* creates no task and does not raise the waiting+active count of the stats.
\* ------------------------------------------------------------------------
WaitingPlusActive(q) == GetQueueStats(q).waiting + GetQueueStats(q).active

C2_IdempotentEnqueue ==
    [][/\ \A id \in JobIds : Cardinality(Outstanding(tasks', id)) <= 1
       /\ \A id \in JobIds :
             lastCall'.op = "add" /\ lastCall'.id = id /\ Outstanding(tasks, id) # {}
                 => /\ tasks' = tasks
                    /\ WaitingPlusActive(tasks') <= WaitingPlusActive(tasks)]_vars

\* an enqueue has just returned for a job that is waiting or active
C2_Witness ==
    /\ lastCall.op = "add"
    /\ Outstanding(tasks, lastCall.id) # {}

C5_RetryRejected ==
    [][\A id \in JobIds :
          /\ lastCall'.op = "retry"
          /\ lastCall'.id = id
          /\ GetJob(tasks, id) # 0
          /\ tasks[GetJob(tasks, id)].state # "failed"
          => /\ lastCall'.result # "ok"
             /\ tasks' = tasks
             /\ assets' = assets
             /\ jobRows' = jobRows]_vars

\* the retry call itself was rejected: the job had left the failed state
\* after the check
C5_Witness ==
    /\ lastCall.op = "retry"
    /\ lastCall.result = "Could not retry job"
    /\ GetJob(tasks, lastCall.id) # 0

\* ------------------------------------------------------------------------
\* C6: the retry call on a failed task moves it back to waiting and keeps
\* its attemptsMade: the value after the retry is at least the value before.
\* ------------------------------------------------------------------------
C6_RetryKeepsAttempts ==
    [][\A id \in JobIds :
          /\ lastCall'.op = "retry"
          /\ lastCall'.id = id
          /\ GetJob(tasks, id) # 0
          /\ tasks[GetJob(tasks, id)].state = "failed"
          => /\ lastCall'.result = "ok"
             /\ GetJob(tasks', id) = GetJob(tasks, id)
             /\ tasks'[GetJob(tasks, id)].state = "waiting"
             /\ tasks'[GetJob(tasks, id)].attemptsMade
                    >= tasks[GetJob(tasks, id)].attemptsMade]_vars

\* a task that had used up its attempts has just been retried
C6_Witness ==
    /\ lastCall.op = "retry"
    /\ lastCall.result = "ok"
    /\ \E i \in 1..Len(tasks) :
          /\ tasks[i].id = lastCall.id
          /\ tasks[i].state = "waiting"
          /\ tasks[i].attemptsMade = Attempts

\* ------------------------------------------------------------------------
\* C7: bounded attempts. Without an operator retry the handler runs at most
\* 3 times for one task; after the third failed attempt the task is failed
\* and kept in the queue, and no further attempt is scheduled.
\* ------------------------------------------------------------------------
\* handler invocations of task t so far
Executions(t) ==
    t.attemptsMade + (IF t.state \in {"active", "completed"} THEN 1 ELSE 0)

C9_OnlyFromProcessing ==
    [][\A w \in Workers :
          AssetWrite(w, "setReady") \/ AssetWrite(w, "catchAsset")
              => assets[exec[w].assetId].status = "PROCESSING"]_vars

\* ------------------------------------------------------------------------
\* C9 as amended: the worker writes READY only in an execution that has
\* written PROCESSING to the asset before, it writes FAILED only from the
\* catch block, and it never writes PENDING.
\* ------------------------------------------------------------------------
C9_ReadyAfterProcessing ==
    [][\A w \in Workers :
          LET a == exec[w].assetId
          IN  /\ AssetWrite(w, "setReady") => exec[w].wroteProcessing
              /\ Executing(w) /\ exec'[w] # exec[w] /\ assets'[a] # assets[a] =>
                    \/ /\ exec[w].pc = "setProcessing"
                       /\ assets'[a].status = "PROCESSING"
                    \/ /\ exec[w].pc = "setReady"
                       /\ assets'[a].status = "READY"
                    \/ /\ exec[w].pc = "catchAsset"
                       /\ assets'[a].status = "FAILED"]_vars

\* a worker has written READY over the PROCESSING it wrote itself
C9_Witness ==
    \E w \in Workers :
        /\ exec[w].pc \in {"jobCompleted", "resolved"}
        /\ exec[w].wroteProcessing
        /\ assets[exec[w].assetId].status = "READY"

\* ------------------------------------------------------------------------
\* C11: when an execution succeeds (processMedia returns) the pipeline has
\* written READY to the asset and the Job row of the attempt is COMPLETED:
\* the READY write sets READY, no step of a worker or of the queue changes
\* the asset between that write and the return, and the handler resolves
\* only with the attempt's Job row, when it was created, in state COMPLETED.
\* ------------------------------------------------------------------------
Resolves(w) == exec[w].pc # "resolved" /\ exec'[w].pc = "resolved"

LiveInit ==
    /\ assets = [a \in AssetIds |-> NoRow]
    /\ jobRows = <<>>
    /\ tasks = <<>>
    /\ exec = [w \in Workers |-> Idle]
    /\ isShuttingDown = [w \in Workers |-> FALSE]
    /\ blobs = {}
    /\ uploading = {}
    /\ retrying = [id \in JobIds |-> 0]
    /\ lastCall = NoCall
    /\ faults = MaxFaults
    /\ runs = 0
    /\ sessions = <<>>
    /\ refreshing = [c \in Clients |-> NoRefresh]
    /\ now = 0
    /\ exits = 0
    /\ cache = NoEntry
    /\ checking = [c \in Clients |-> NotChecking]
    /\ admitted = <<>>

QueueStep ==
    \/ \E i \in 1..Len(tasks) : PromoteDelayed(i)
    \/ \E w \in Workers, i \in 1..Len(tasks) : Claim(w, i)
    \/ \E w \in Workers : Finish(w)

WorkerStep(w) ==
    \/ Start(w)
    \/ SetProcessing(w)
    \/ Download(w)
    \/ Upload(w)
    \/ SetReady(w)
    \/ JobCompleted(w)
    \/ CatchAsset(w)
    \/ CatchJob(w)

LiveNext ==
    \/ \E a \in AssetIds, dto \in Dtos : CompleteUploadCreate(a, dto, Uploader)
    \/ \E a \in AssetIds : CompleteUploadEnqueue(a)
    \/ \E a \in AssetIds : Enqueue(a)
    \/ \E a \in AssetIds, status \in Statuses :
          UpdateAssetStatus(a, Uploader, status)
    \/ \E i \in 1..Len(tasks) : PromoteDelayed(i)
    \/ \E w \in Workers, i \in 1..Len(tasks) : Claim(w, i)
    \/ \E w \in Workers : Finish(w)
    \/ \E w \in Workers : Start(w)
    \/ \E w \in Workers : SetProcessing(w)
    \/ \E w \in Workers : Download(w)
    \/ \E w \in Workers : Upload(w)
    \/ \E w \in Workers : SetReady(w)
    \/ \E w \in Workers : JobCompleted(w)
    \/ \E w \in Workers : CatchAsset(w)
    \/ \E w \in Workers : CatchJob(w)

LiveSpec ==
    /\ LiveInit
    /\ [][LiveNext]_vars
    /\ WF_vars(\E a \in AssetIds : CompleteUploadEnqueue(a))
    /\ WF_vars(QueueStep)
    /\ \A w \in Workers : WF_vars(WorkerStep(w))

\* ------------------------------------------------------------------------
\* C12: end-to-end liveness. With no store or database failure and fair
\* scheduling, an upload-complete for the valid image "u/1.jpg" creates the
\* asset PENDING, enqueues exactly one task, and the asset eventually is
\* READY with thumbKey "u/1_thumb.jpg" and meta.thumbnailGenerated true.
\* ------------------------------------------------------------------------
ThumbJpg == <<"u", "/", "1", "_", "t", "h", "u", "m", "b", ".", "j", "p", "g">>

Completed(a, key) ==
    /\ assets[a] # NoRow
    /\ assets[a].objectKey = key
    /\ a \in uploading

ReadyWith(a, thumbKey) ==
    /\ assets[a] # NoRow
    /\ assets[a].status = "READY"
    /\ assets[a].thumbKey = thumbKey
    /\ assets[a].thumbnailGenerated

\* the row is created PENDING before any task exists for it, and the enqueue
\* that ends the request leaves exactly one task
CreatedPendingThenEnqueued ==
    [][\A a \in AssetIds :
          /\ assets[a] = NoRow /\ assets'[a] # NoRow =>
                /\ assets'[a].status = "PENDING"
                /\ a \in uploading'
                /\ tasks' = <<>>
          /\ a \in uploading /\ a \notin uploading' =>
                /\ Len(tasks') = 1
                /\ tasks'[1].id = JobIdOf(a)]_vars

C12_EventuallyReadyJpg ==
    /\ CreatedPendingThenEnqueued
    /\ \A a \in AssetIds : Completed(a, Key1) ~> ReadyWith(a, ThumbJpg)

\* what the pipeline does reach for "u/1.jpg": the key ends in the format
\* name sharp reports, "jpeg"
C12_EventuallyReadyJpeg ==
    /\ CreatedPendingThenEnqueued
    /\ \A a \in AssetIds :
          Completed(a, Key1) ~> ReadyWith(a, GenerateThumbnailKey(Key1, "jpeg"))

\* ------------------------------------------------------------------------
\* The key derivation on its own: a worker has downloaded nothing yet for an
\* asset whose object key and stored image format are drawn from bounded
\* sets; it derives the key, uploads the thumbnail and records the key.
\* ------------------------------------------------------------------------
KeyChars == {"a", ".", "/"}

ExampleKey ==
    <<"u", "p", "l", "o", "a", "d", "s", "/", "2", "0", "2", "5", "/",
      "a", ".", "p", "n", "g">>

Keys == UNION { [1..n -> KeyChars] : n \in 1..MaxKeyLen } \cup {ExampleKey}

\* the formats sharp reports for the allowed image types
Formats == {"jpeg", "png", "webp", "gif"}

MimeOf(format) ==
    IF format = "jpeg" THEN "image/jpeg"
    ELSE IF format = "png" THEN "image/png"
    ELSE IF format = "gif" THEN "image/gif"
    ELSE "image/webp"

KeyInit ==
    \E key \in Keys, format \in Formats :
        /\ assets = [a \in AssetIds |->
                        [status |-> "PROCESSING", objectKey |-> key,
                         mime |-> MimeOf(format), ownerId |-> Uploader,
                         thumbKey |-> NoKey, thumbnailGenerated |-> FALSE]]
        /\ jobRows = <<[assetId |-> "a1", state |-> "ACTIVE", attempts |-> 0,
                        lastError |-> ""]>>
        /\ tasks = <<[NewTask(JobIdOf("a1"),
                              [assetId |-> "a1", objectKey |-> key,
                               mimeType |-> MimeOf(format)],
                              GetJobPriority(MimeOf(format)))
                        EXCEPT !.state = "active", !.lock = "w1"]>>
        /\ exec = [w \in Workers |->
                      IF w = "w1"
                      THEN [Idle EXCEPT !.pc = "download",
                                        !.jobId = JobIdOf("a1"),
                                        !.assetId = "a1", !.objectKey = key,
                                        !.dbJob = 1, !.wroteProcessing = TRUE]
                      ELSE Idle]
        /\ isShuttingDown = [w \in Workers |-> FALSE]
        /\ blobs = {[key |-> key, bytes |-> format]}
        /\ uploading = {}
        /\ retrying = [id \in JobIds |-> 0]
        /\ lastCall = NoCall
        /\ faults = MaxFaults
        /\ runs = 1
        /\ sessions = <<>>
        /\ refreshing = [c \in Clients |-> NoRefresh]
        /\ now = 0
        /\ exits = 0
        /\ cache = NoEntry
        /\ checking = [c \in Clients |-> NotChecking]
        /\ admitted = <<>>

KeyNext ==
    \/ \E w \in Workers : Download(w)
    \/ \E w \in Workers : Upload(w)
    \/ \E w \in Workers : SetReady(w)

KeySpec == KeyInit /\ [][KeyNext]_vars

\* ------------------------------------------------------------------------
\* C13: deterministic derived key. The thumbnail key is the source key with
\* its extension stripped, then "_thumb" and the extension of the derived
\* format, so that "uploads/2025/a.png" with the derived format jpeg gives
\* "uploads/2025/a_thumb.jpg"; the key stored in Asset.thumbKey is the key
\* the thumbnail was uploaded under.
\* ------------------------------------------------------------------------
ExampleThumbKey ==
    <<"u", "p", "l", "o", "a", "d", "s", "/", "2", "0", "2", "5", "/",
      "a", "_", "t", "h", "u", "m", "b", ".", "j", "p", "g">>

C13_DerivedKey ==
    /\ \A w \in Workers :
          exec[w].objectKey = ExampleKey /\ exec[w].thumbnailKey # NoKey
              => exec[w].thumbnailKey = ExampleThumbKey
    /\ \A a \in AssetIds :
          assets[a] # NoRow /\ assets[a].thumbKey # NoKey
              => \E o \in blobs : o.key = assets[a].thumbKey

\* ------------------------------------------------------------------------
\* The services the users call, apart from the pipeline: completeUpload with
\* every kind of request (UploadSpec), and AssetsService with two users
\* (AssetSpec).
\* ------------------------------------------------------------------------
ServiceAssetIds == {"a1", "a2"}

UploadDtos ==
    { [objectKey |-> Key1, contentType |-> "image/jpeg", fileSize |-> 2048,
       bytes |-> "jpeg"],
      [objectKey |-> Key2, contentType |-> "application/pdf",
       fileSize |-> MaxFileSize, bytes |-> "none"],
      [objectKey |-> Key2, contentType |-> "video/mp4", fileSize |-> 2048,
       bytes |-> "none"],
      [objectKey |-> Key2, contentType |-> "image/jpeg", fileSize |-> 0,
       bytes |-> "jpeg"],
      [objectKey |-> Key2, contentType |-> "image/jpeg",
       fileSize |-> MaxFileSize + 1, bytes |-> "jpeg"] }

\* what completeUpload throws for dto, "" when it goes through
UploadError(dto) ==
    IF dto.contentType \notin AllowedTypes THEN "File type is not allowed"
    ELSE IF ~ValidFileSize(dto.fileSize) THEN "Invalid file size"
    ELSE IF KeyTaken(dto.objectKey) THEN "Unique constraint failed"
    ELSE ""

\* a completeUpload that throws, from its validation or from asset.create
CompleteUploadRejected(dto, userId) ==
    /\ UploadError(dto) # ""
    /\ lastCall' = Call("completeUpload", "", UploadError(dto))
    /\ UNCHANGED <<cache, checking, admitted, exits, sessions, refreshing, now, assets, jobRows, tasks, exec, isShuttingDown, blobs,
                   uploading, retrying, faults, runs>>

\* AssetsService.getAssetById
GetAssetById(a, userId) ==
    /\ lastCall' = Call("getAssetById", a,
                        IF assets[a] = NoRow THEN "Asset not found"
                        ELSE IF ~IsOwner(assets[a], userId) THEN AccessDenied
                        ELSE "ok")
    /\ UNCHANGED <<cache, checking, admitted, exits, sessions, refreshing, now, assets, jobRows, tasks, exec, isShuttingDown, blobs,
                   uploading, retrying, faults, runs>>

\* AssetsService.listAssets: where ownerId = userId
ListAssets(userId) ==
    /\ lastCall' = Call("listAssets", userId,
                        { a \in DOMAIN assets :
                            assets[a] # NoRow /\ IsOwner(assets[a], userId) })
    /\ UNCHANGED <<cache, checking, admitted, exits, sessions, refreshing, now, assets, jobRows, tasks, exec, isShuttingDown, blobs,
                   uploading, retrying, faults, runs>>

\* (mutant) a failed blob deletion aborts deleteAsset
ProceedsOnlyIfDeleted(outcome) == outcome = "deleted"

\* the catch around both deleteObject calls only logs a warning
ProceedsAfterS3(outcome) == TRUE

\* how the deleteObject calls of deleteAsset can end
S3Outcomes(row) ==
    {"deleted", "objectFails"} \cup
        (IF row.thumbKey # NoKey THEN {"thumbFails"} ELSE {})

\* the store after them: a failure of the first call skips the second
AfterDeleteObjects(row, outcome) ==
    IF outcome = "objectFails" THEN blobs
    ELSE IF outcome = "thumbFails" THEN { o \in blobs : o.key # row.objectKey }
    ELSE { o \in blobs : o.key # row.objectKey /\ o.key # row.thumbKey }

\* prisma.asset.delete; the Job rows of the asset go with it (ON DELETE CASCADE)
DeleteRow(a) ==
    /\ assets' = [assets EXCEPT ![a] = NoRow]
    /\ jobRows' = SelectSeq(jobRows, LAMBDA r : r.assetId # a)

\* AssetsService.deleteAsset
DeleteAsset(a, userId) ==
    /\ assets[a] # NoRow
    /\ IF ~IsOwner(assets[a], userId)
       THEN /\ lastCall' = Call("deleteAsset", a, AccessDenied)
            /\ UNCHANGED <<cache, checking, admitted, exits, sessions, refreshing, now, assets, jobRows, blobs>>
       ELSE \E outcome \in S3Outcomes(assets[a]) :
               /\ blobs' = AfterDeleteObjects(assets[a], outcome)
               /\ IF ~ProceedsAfterS3(outcome)
                  THEN /\ lastCall' = Call("deleteAsset", a, "S3 error")
                       /\ UNCHANGED <<cache, checking, admitted, exits, sessions, refreshing, now, assets, jobRows>>
                  ELSE \/ /\ DeleteRow(a)
                          /\ lastCall' = Call("deleteAsset", a, outcome)
                       \/ /\ lastCall' = Call("deleteAsset", a, "Database error")
                          /\ UNCHANGED <<cache, checking, admitted, exits, sessions, refreshing, now, assets, jobRows>>
    /\ UNCHANGED <<cache, checking, admitted, exits, sessions, refreshing, now, tasks, exec, isShuttingDown, uploading, retrying, faults,
                   runs>>

\* the first asset after one successful execution of its task
ProcessedRow ==
    [status |-> "READY", objectKey |-> Key1, mime |-> "image/jpeg",
     ownerId |-> Uploader, thumbKey |-> GenerateThumbnailKey(Key1, "jpeg"),
     thumbnailGenerated |-> TRUE]

ProcessedTask ==
    MoveToCompleted(NewTask(JobIdOf("a1"),
                            [assetId |-> "a1", objectKey |-> Key1,
                             mimeType |-> "image/jpeg"],
                            GetJobPriority("image/jpeg")))

ProcessedJobRow ==
    [assetId |-> "a1", state |-> "COMPLETED", attempts |-> 0, lastError |-> ""]

ProcessedBlobs ==
    {[key |-> Key1, bytes |-> "jpeg"],
     [key |-> GenerateThumbnailKey(Key1, "jpeg"), bytes |-> "jpeg"]}

\* no request in progress, no worker busy
Quiet ==
    /\ exec = [w \in Workers |-> Idle]
    /\ isShuttingDown = [w \in Workers |-> FALSE]
    /\ uploading = {}
    /\ retrying = [id \in JobIds |-> 0]
    /\ lastCall = NoCall
    /\ faults = 0

\* uploads: nothing exists yet, or the first asset has been processed
UploadInit ==
    /\ \/ /\ assets = [a \in ServiceAssetIds |-> NoRow]
          /\ jobRows = <<>>
          /\ tasks = <<>>
          /\ blobs = {}
          /\ runs = 0
          /\ sessions = <<>>
          /\ refreshing = [c \in Clients |-> NoRefresh]
          /\ now = 0
          /\ exits = 0
          /\ cache = NoEntry
          /\ checking = [c \in Clients |-> NotChecking]
          /\ admitted = <<>>
       \/ /\ assets = [a \in ServiceAssetIds |->
                          IF a = "a1" THEN ProcessedRow ELSE NoRow]
          /\ jobRows = <<ProcessedJobRow>>
          /\ tasks = <<ProcessedTask>>
          /\ blobs = ProcessedBlobs
          /\ runs = 1
          /\ sessions = <<>>
          /\ refreshing = [c \in Clients |-> NoRefresh]
          /\ now = 0
          /\ exits = 0
          /\ cache = NoEntry
          /\ checking = [c \in Clients |-> NotChecking]
          /\ admitted = <<>>
    /\ Quiet

UploadNext ==
    \/ \E a \in ServiceAssetIds, dto \in UploadDtos, u \in Users :
          CompleteUploadCreate(a, dto, u)
    \/ \E dto \in UploadDtos, u \in Users : CompleteUploadRejected(dto, u)
    \/ \E a \in ServiceAssetIds : CompleteUploadEnqueue(a)
    \/ \E a \in ServiceAssetIds : Enqueue(a)
    \/ \E i \in 1..Len(tasks) : PromoteDelayed(i)
    \/ \E id \in { JobIdOf(a) : a \in ServiceAssetIds } : RemoveJob(id)

UploadSpec == UploadInit /\ [][UploadNext]_vars

\* a second asset, uploaded by either user and waiting for its delayed task
SecondRow(userId) ==
    [status |-> "PENDING", objectKey |-> Key2, mime |-> "application/pdf",
     ownerId |-> userId, thumbKey |-> NoKey, thumbnailGenerated |-> FALSE]

SecondTask ==
    NewTask(JobIdOf("a2"),
            [assetId |-> "a2", objectKey |-> Key2,
             mimeType |-> "application/pdf"],
            GetJobPriority("application/pdf"))

\* the asset service: the first asset has been processed, the second is
\* absent or has just been uploaded
AssetInit ==
    /\ \/ /\ assets = [a \in ServiceAssetIds |->
                          IF a = "a1" THEN ProcessedRow ELSE NoRow]
          /\ tasks = <<ProcessedTask>>
          /\ blobs = ProcessedBlobs
       \/ \E u \in Users :
             /\ assets = [a \in ServiceAssetIds |->
                             IF a = "a1" THEN ProcessedRow ELSE SecondRow(u)]
             /\ tasks = <<ProcessedTask, SecondTask>>
             /\ blobs = ProcessedBlobs \cup {[key |-> Key2, bytes |-> "none"]}
    /\ jobRows = <<ProcessedJobRow>>
    /\ runs = 1
    /\ sessions = <<>>
    /\ refreshing = [c \in Clients |-> NoRefresh]
    /\ now = 0
    /\ exits = 0
    /\ cache = NoEntry
    /\ checking = [c \in Clients |-> NotChecking]
    /\ admitted = <<>>
    /\ Quiet

AssetNext ==
    \/ \E a \in ServiceAssetIds, u \in Users : GetAssetById(a, u)
    \/ \E u \in Users : ListAssets(u)
    \/ \E a \in ServiceAssetIds, u \in Users, status \in Statuses :
          UpdateAssetStatus(a, u, status)
    \/ \E a \in ServiceAssetIds, u \in Users : DeleteAsset(a, u)

AssetSpec == AssetInit /\ [][AssetNext]_vars

\* ------------------------------------------------------------------------
\* C14: objectKey is globally unique. After any sequence of upload-complete
\* calls, interleaved in any way, no two Asset rows share an objectKey; a
\* completion for an objectKey that an Asset already holds creates no Asset
\* and enqueues no task.
\* ------------------------------------------------------------------------
UniqueKeys(rows) ==
    \A a, b \in DOMAIN rows :
        a # b /\ rows[a] # NoRow /\ rows[b] # NoRow
            => rows[a].objectKey # rows[b].objectKey

C14_UniqueObjectKey ==
    [][/\ UniqueKeys(assets')
       /\ \A dto \in UploadDtos, u \in Users :
             KeyTaken(dto.objectKey) =>
                /\ \A a \in ServiceAssetIds : ~CompleteUploadCreate(a, dto, u)
                /\ CompleteUploadRejected(dto, u) =>
                      /\ assets' = assets
                      /\ tasks' = tasks
                      /\ uploading' = uploading
                      /\ lastCall'.result # ""]_vars

\* a valid completion was refused for its key while another Asset holds it
C14_Witness ==
    /\ lastCall.op = "completeUpload"
    /\ lastCall.result = "Unique constraint failed"
    /\ \E a \in ServiceAssetIds : assets[a] # NoRow
    /\ \E a \in ServiceAssetIds : assets[a] = NoRow

\* ------------------------------------------------------------------------
\* C15: validation failures are rejected before any state is created. An
\* upload-complete with a disallowed MIME type or a file size <= 0 or
\* > 104857600 fails, and it creates no Asset row, no Job row and no task.
\* ------------------------------------------------------------------------
InvalidUpload(dto) ==
    \/ dto.contentType \notin AllowedTypes
    \/ dto.fileSize <= 0
    \/ dto.fileSize > 104857600

C15_ValidationBeforeState ==
    [][\A dto \in UploadDtos, u \in Users :
          InvalidUpload(dto) =>
             /\ \A a \in ServiceAssetIds : ~CompleteUploadCreate(a, dto, u)
             /\ CompleteUploadRejected(dto, u) =>
                   /\ lastCall'.result \in {"File type is not allowed",
                                            "Invalid file size"}
                   /\ assets' = assets
                   /\ jobRows' = jobRows
                   /\ tasks' = tasks
                   /\ blobs' = blobs
                   /\ uploading' = uploading]_vars

\* an oversized upload has just been refused, with free room for an Asset
C15_Witness ==
    /\ lastCall.op = "completeUpload"
    /\ lastCall.result = "Invalid file size"
    /\ \E a \in ServiceAssetIds : assets[a] = NoRow

\* ------------------------------------------------------------------------
\* C16: deletion by the owner removes the Asset row whether or not the
\* deletion of the original blob or of the thumbnail blob fails: unless the
\* database deletion itself fails, deleteAsset ends with the row gone.
\* ------------------------------------------------------------------------
C16_DeleteProceeds ==
    [][\A a \in ServiceAssetIds, u \in Users :
          /\ assets[a] # NoRow
          /\ IsOwner(assets[a], u)
          /\ DeleteAsset(a, u)
          /\ lastCall'.result # "Database error"
          => /\ assets'[a] = NoRow
             /\ \A j \in 1..Len(jobRows') : jobRows'[j].assetId # a]_vars

\* the row of the processed asset is gone although a blob deletion failed
\* and left a blob behind
C16_Witness ==
    /\ lastCall.op = "deleteAsset"
    /\ lastCall.result \in {"objectFails", "thumbFails"}
    /\ assets[lastCall.id] = NoRow
    /\ \E o \in blobs : o.key = ProcessedRow.thumbKey

\* ------------------------------------------------------------------------
\* C17: owner isolation. getAssetById, updateAssetStatus and deleteAsset
\* called by a user other than the owner fail with Forbidden and change
\* neither an Asset row nor a blob; listAssets returns only assets whose
\* ownerId is the caller.
\* ------------------------------------------------------------------------
Denied(op, a) ==
    /\ lastCall' = Call(op, a, AccessDenied)
    /\ assets' = assets
    /\ jobRows' = jobRows
    /\ blobs' = blobs

C17_OwnerIsolation ==
    [][/\ \A a \in ServiceAssetIds, u \in Users :
             assets[a] # NoRow /\ assets[a].ownerId # u =>
                /\ GetAssetById(a, u) => Denied("getAssetById", a)
                /\ \A status \in Statuses :
                      UpdateAssetStatus(a, u, status)
                          => Denied("updateAssetStatus", a)
                /\ DeleteAsset(a, u) => Denied("deleteAsset", a)
       /\ \A u \in Users :
             ListAssets(u) =>
                \A a \in lastCall'.result : assets[a].ownerId = u]_vars

\* a user was refused the deletion of another user's asset while owning one
C17_Witness ==
    /\ lastCall.op = "deleteAsset"
    /\ lastCall.result = AccessDenied
    /\ assets[lastCall.id] # NoRow
    /\ \E a \in ServiceAssetIds :
          assets[a] # NoRow /\ assets[a].ownerId # assets[lastCall.id].ownerId

\* ------------------------------------------------------------------------
\* C18: only the worker and the owning user write Asset.status. The queue
\* operations enqueue, retry and remove never change an Asset row, and a
\* step that changes one is a step of a worker inside processMedia, the
\* owner's updateAssetStatus, or the creation of the row by completeUpload.
\* ------------------------------------------------------------------------
\* the step taken is a call of JobsService
QueueCall ==
    \/ lastCall'.op \in {"add", "retry", "remove"}
    \/ retrying' # retrying

C18_QueueLeavesAssets ==
    [][/\ QueueCall => assets' = assets
       /\ assets' # assets =>
             \/ \E w \in Workers : Executing(w) /\ exec'[w] # exec[w]
             \/ \E a \in AssetIds, status \in Statuses :
                   UpdateAssetStatus(a, Uploader, status)
             \/ \E a \in AssetIds, dto \in Dtos :
                   CompleteUploadCreate(a, dto, Uploader)]_vars

\* a failed task has just been retried and its asset still is FAILED
C18_Witness ==
    /\ lastCall.op = "retry"
    /\ lastCall.result = "ok"
    /\ \E a \in AssetIds :
          JobIdOf(a) = lastCall.id /\ assets[a].status = "FAILED"

\* ------------------------------------------------------------------------
\* C19 as stated: a FAILED asset returns to READY only through a brand-new
\* enqueue cycle or a status override: a worker that writes READY to an
\* asset for which an attempt has failed before executes a task that was
\* enqueued anew (no attempt made, never retried).
\* ------------------------------------------------------------------------
FailedBefore(a) ==
    \E j \in 1..Len(jobRows) :
        jobRows[j].assetId = a /\ jobRows[j].state = "FAILED"

FreshTask(id) ==
    /\ GetJob(tasks, id) # 0
    /\ tasks[GetJob(tasks, id)].attemptsMade = 0
    /\ ~tasks[GetJob(tasks, id)].retried

C19_OnlyFreshCycle ==
    [][\A w \in Workers :
          AssetWrite(w, "setReady") /\ FailedBefore(exec[w].assetId)
              => FreshTask(exec[w].jobId)]_vars

\* ------------------------------------------------------------------------
\* C19 as amended: an asset leaves FAILED only by a write of a worker that
\* executes the asset's task (the PROCESSING write that starts an attempt,
\* or the READY write of an attempt that wrote PROCESSING before), whatever
\* started that attempt, or by the owner's status override.
\* ------------------------------------------------------------------------
C19_LeavesFailedByWorkerOrOverride ==
    [][\A a \in AssetIds :
          /\ assets[a] # NoRow
          /\ assets[a].status = "FAILED"
          /\ assets'[a].status # "FAILED"
          => \/ UpdateAssetStatus(a, Uploader, assets'[a].status)
             \/ \E w \in Workers :
                   /\ exec[w].assetId = a
                   /\ \/ /\ AssetWrite(w, "setProcessing")
                         /\ assets'[a].status = "PROCESSING"
                      \/ /\ AssetWrite(w, "setReady")
                         /\ exec[w].wroteProcessing
                         /\ assets'[a].status = "READY"]_vars

\* an asset whose earlier attempt failed is READY after a later attempt of
\* the same task
C19_Witness ==
    \E w \in Workers :
        /\ exec[w].pc \in {"jobCompleted", "resolved"}
        /\ FailedBefore(exec[w].assetId)
        /\ ~FreshTask(exec[w].jobId)
        /\ assets[exec[w].assetId].status = "READY"

\* ------------------------------------------------------------------------
\* C20 as stated: no step moves an asset back to PENDING: an asset that is
\* PROCESSING, READY or FAILED never becomes PENDING again.
\* ------------------------------------------------------------------------
BackToPending(a) ==
    /\ assets[a] # NoRow
    /\ assets[a].status # "PENDING"
    /\ assets'[a] # NoRow
    /\ assets'[a].status = "PENDING"

C20_NeverBackToPending ==
    [][\A a \in AssetIds : ~BackToPending(a)]_vars

\* ------------------------------------------------------------------------
\* C20 as amended: the pipeline never moves an asset back to PENDING; the
\* only step that does is the owner's updateAssetStatus with status PENDING.
\* ------------------------------------------------------------------------
C20_PendingOnlyByOverride ==
    [][\A a \in AssetIds :
          BackToPending(a) =>
             /\ UpdateAssetStatus(a, Uploader, "PENDING")
             /\ exec' = exec]_vars

\* an asset that was READY is processed again and is PROCESSING
C20_Witness ==
    \E w \in Workers :
        /\ exec[w].pc = "download"
        /\ exec[w].wroteProcessing
        /\ assets[exec[w].assetId].status = "PROCESSING"
        /\ assets[exec[w].assetId].thumbnailGenerated

\* ------------------------------------------------------------------------
\* C21: remove(taskHandle) removes the task whatever its state (waiting,
\* delayed, active, completed or failed), after which the task is absent
\* from the queue; when no task has that id it fails with a not-found error
\* and changes nothing.
\* ------------------------------------------------------------------------
C21_RemovesAnyState ==
    [][\A id \in JobIds :
          RemoveJob(id) =>
              IF HasJob(tasks, id)
              THEN ~HasJob(tasks', id)
              ELSE /\ lastCall' = Call("remove", id, "Job not found")
                   /\ tasks' = tasks]_vars

\* what the code does keep of C21: every job no worker holds is removed, and
\* an unknown id is answered "Job not found" with the queue unchanged
C21_RemovesUnlessLocked ==
    [][\A id \in JobIds :
          RemoveJob(id) =>
              IF ~HasJob(tasks, id)
              THEN lastCall' = Call("remove", id, "Job not found") /\ tasks' = tasks
              ELSE IF tasks[GetJob(tasks, id)].lock = NoWorker
              THEN ~HasJob(tasks', id)
              ELSE tasks' = tasks]_vars

\* ------------------------------------------------------------------------
\* ThumbnailService: generateThumbnail and processImageFormat. One call is
\* held in lastCall: id is the input, result the outcome of the call.
\* ------------------------------------------------------------------------
Max2(x, y) == IF x >= y THEN x ELSE y

Min2(x, y) == IF x <= y THEN x ELSE y

\* Math.round(n / d) for n >= 0, d > 0: halves round up
Round(n, d) == (2 * n + d) \div (2 * d)

DefaultWidth == 300

DefaultHeight == 300

Fits == {"cover", "fill", "inside", "outside"}

\* (mutant) resize is called without withoutEnlargement
WithoutEnlargementOff == FALSE

\* withoutEnlargement: true
WithoutEnlargement == TRUE

\* sharp's resize to width x height under a fit mode: the horizontal and
\* vertical shrink factors w/tw and h/th, as fractions <<num, den>>; cover
\* and outside take the smaller for both axes, inside the larger, fill
\* keeps each; without enlargement no factor is below 1
Shrinks(w, h, tw, th, fit) ==
    LET hs == <<w, tw>>
        vs == <<h, th>>
        hSmaller == w * th < h * tw
        one(s) == IF WithoutEnlargement /\ s[1] < s[2] THEN <<1, 1>> ELSE s
    IN  IF fit \in {"cover", "outside"}
        THEN IF hSmaller THEN <<one(hs), one(hs)>> ELSE <<one(vs), one(vs)>>
        ELSE IF fit = "inside"
        THEN IF hSmaller THEN <<one(vs), one(vs)>> ELSE <<one(hs), one(hs)>>
        ELSE <<one(hs), one(vs)>>

\* the scaled image, at least one pixel on each axis; cover then crops it
\* to the target box
Resize(w, h, tw, th, fit) ==
    LET s  == Shrinks(w, h, tw, th, fit)
        rw == Max2(1, Round(w * s[1][2], s[1][1]))
        rh == Max2(1, Round(h * s[2][2], s[2][1]))
    IN  IF fit = "cover"
        THEN [width |-> Min2(rw, tw), height |-> Min2(rh, th)]
        ELSE [width |-> rw, height |-> rh]

Pending == [status |-> "pending", width |-> 0, height |-> 0, error |-> "", steps |-> <<>>]

Failure(message, steps) ==
    [status |-> "error", width |-> 0, height |-> 0, error |-> message, steps |-> steps]

UndecodableError == "Input buffer contains unsupported image format"

\* generateThumbnail(imageBuffer, options): metadata of the buffer, resize,
\* encode; every error is rethrown as "Thumbnail generation failed: ..."
GenerateThumbnail(image, width, height, fit, steps) ==
    IF ~image.decodable
    THEN Failure(<<"Thumbnail generation failed: ", UndecodableError>>,
                 Append(steps, "metadata"))
    ELSE IF width < 1 \/ height < 1
    THEN Failure(<<"Thumbnail generation failed: ", "Expected positive integer">>,
                 steps \o <<"metadata", "resize">>)
    ELSE [status |-> "ok",
          width |-> Resize(image.width, image.height, width, height, fit).width,
          height |-> Resize(image.width, image.height, width, height, fit).height,
          error |-> "", steps |-> steps \o <<"metadata", "resize", "encode">>]

\* (mutant) the bounds are taken as the dimensions, whatever the source
CalculateStretch(originalWidth, originalHeight, maxWidth, maxHeight) ==
    [width |-> maxWidth, height |-> maxHeight]

\* calculateOptimalDimensions
CalculateOptimalDimensions(originalWidth, originalHeight, maxWidth, maxHeight) ==
    IF originalWidth = 0 \/ originalHeight = 0
    THEN [width |-> maxWidth, height |-> maxHeight]
    ELSE IF originalWidth > originalHeight
    THEN LET height == Round(maxWidth * originalHeight, originalWidth)
         IN  IF height > maxHeight
             THEN [width |-> Round(maxHeight * originalWidth, originalHeight),
                   height |-> maxHeight]
             ELSE [width |-> maxWidth, height |-> height]
    ELSE LET width == Round(maxHeight * originalWidth, originalHeight)
         IN  IF width > maxWidth
             THEN [width |-> maxWidth,
                   height |-> Round(maxWidth * originalHeight, originalWidth)]
             ELSE [width |-> width, height |-> maxHeight]

\* format.toLowerCase()
ToLowerCase(format) == IF format = "JPEG" THEN "jpeg" ELSE format

SupportedFormats == {"jpeg", "jpg", "png", "gif", "webp", "tiff", "bmp"}

\* (mutant) the format is not validated
IsSupportedImageFormatAlways(format) == TRUE

\* isSupportedImageFormat
IsSupportedImageFormat(format) == ToLowerCase(format) \in SupportedFormats

\* options.maxWidth || this.defaultOptions.width
OrDefault(value, default) == IF value = 0 THEN default ELSE value

\* processImageFormat(buffer, format, options), with the configured fit
ProcessImageFormat(image, format, maxWidth, maxHeight, fit) ==
    IF ~IsSupportedImageFormat(format)
    THEN Failure(<<"Unsupported image format: ", format>>, <<>>)
    ELSE IF ~image.decodable
    THEN Failure(<<UndecodableError>>, <<"metadata">>)
    ELSE LET d == CalculateOptimalDimensions(image.width, image.height,
                      OrDefault(maxWidth, DefaultWidth),
                      OrDefault(maxHeight, DefaultHeight))
         IN  GenerateThumbnail(image, d.width, d.height, fit, <<"metadata">>)

SourceSizes == (1..MaxDim) \cup {50, 200, 400}

TargetSizes == (1..MaxDim) \cup {300}

Images ==
    { [width |-> w, height |-> h, decodable |-> TRUE] : w \in SourceSizes, h \in SourceSizes }
        \cup {[width |-> 0, height |-> 0, decodable |-> FALSE]}

InputFormats == {"jpeg", "JPEG", "bmp", "unsupported", "svg"}

GenerateInputs ==
    { [image |-> i, width |-> tw, height |-> th, fit |-> f] :
        i \in Images, tw \in TargetSizes, th \in TargetSizes, f \in Fits }

ProcessInputs ==
    { [image |-> i, format |-> fm, maxWidth |-> mw, maxHeight |-> mh, fit |-> f] :
        i \in Images, fm \in InputFormats, mw \in TargetSizes \cup {0},
        mh \in TargetSizes \cup {0}, f \in {"cover", "inside"} }

ThumbInit ==
    /\ assets = [a \in AssetIds |-> NoRow]
    /\ jobRows = <<>>
    /\ tasks = <<>>
    /\ exec = [w \in Workers |-> Idle]
    /\ isShuttingDown = [w \in Workers |-> FALSE]
    /\ blobs = {}
    /\ uploading = {}
    /\ retrying = [id \in JobIds |-> 0]
    /\ \/ \E in \in GenerateInputs : lastCall = Call("generateThumbnail", in, Pending)
       \/ \E in \in ProcessInputs : lastCall = Call("processImageFormat", in, Pending)
    /\ faults = 0
    /\ runs = 0
    /\ sessions = <<>>
    /\ refreshing = [c \in Clients |-> NoRefresh]
    /\ now = 0
    /\ exits = 0
    /\ cache = NoEntry
    /\ checking = [c \in Clients |-> NotChecking]
    /\ admitted = <<>>

GenerateThumbnailCall ==
    /\ lastCall.op = "generateThumbnail"
    /\ lastCall.result = Pending
    /\ lastCall' = [lastCall EXCEPT !.result =
                       GenerateThumbnail(lastCall.id.image, lastCall.id.width,
                                         lastCall.id.height, lastCall.id.fit, <<>>)]
    /\ UNCHANGED <<cache, checking, admitted, exits, sessions, refreshing, now, assets, jobRows, tasks, exec, isShuttingDown, blobs, uploading,
                   retrying, faults, runs>>

ProcessImageFormatCall ==
    /\ lastCall.op = "processImageFormat"
    /\ lastCall.result = Pending
    /\ lastCall' = [lastCall EXCEPT !.result =
                       ProcessImageFormat(lastCall.id.image, lastCall.id.format,
                                          lastCall.id.maxWidth, lastCall.id.maxHeight,
                                          lastCall.id.fit)]
    /\ UNCHANGED <<cache, checking, admitted, exits, sessions, refreshing, now, assets, jobRows, tasks, exec, isShuttingDown, blobs, uploading,
                   retrying, faults, runs>>

ThumbNext == GenerateThumbnailCall \/ ProcessImageFormatCall

ThumbSpec == ThumbInit /\ [][ThumbNext]_vars

Returned(op) == lastCall.op = op /\ lastCall.result # Pending

Abs(x) == IF x < 0 THEN -x ELSE x

\* width x height has the aspect ratio of the image, one axis rounded
KeepsRatio(image, width, height) ==
    2 * Abs(width * image.height - height * image.width)
        <= Max2(image.width, image.height)

C24_UnsupportedRejectedFirst ==
    Returned("processImageFormat")
        /\ ToLowerCase(lastCall.id.format) \notin SupportedFormats
        => /\ lastCall.result.status = "error"
           /\ lastCall.result.error = <<"Unsupported image format: ", lastCall.id.format>>
           /\ lastCall.result.steps = <<>>

C24_Witness ==
    /\ Returned("processImageFormat")
    /\ lastCall.id.format = "unsupported"
    /\ lastCall.id.image.decodable
    /\ lastCall.result.error = <<"Unsupported image format: ", "unsupported">>
    /\ lastCall.result.steps = <<>>

\* ------------------------------------------------------------------------
\* AuthService: login and refreshToken over the sessions table
\* ------------------------------------------------------------------------
\* 7 * 24 * 60 * 60 * 1000
SevenDays == 604800000

\* generateRefreshToken: the signed payload {sub, iat: Date.now()}
GenerateRefreshToken(userId) == [sub |-> userId, iat |-> now]

\* hashToken: the SHA-256 digest of the token
HashToken(token) == <<"sha256", token.sub, token.iat>>

\* jwtService.verify: a token signed with the refresh secret
Verifies(token) == token.sub \in Users

\* storeRefreshToken: prisma.session.create
StoreRefreshToken(rows, userId, token) ==
    Append(rows, [userId |-> userId, refreshTokenHash |-> HashToken(token),
                  expiresAt |-> now + SevenDays, revoked |-> FALSE])

\* session.findFirst({userId, refreshTokenHash, expiresAt > now, revokedAt: null}):
\* the position of the first such row, 0 when there is none
FindSession(rows, token) ==
    LET match == { i \in 1..Len(rows) :
                     /\ rows[i].userId = token.sub
                     /\ rows[i].refreshTokenHash = HashToken(token)
                     /\ rows[i].expiresAt > now
                     /\ ~rows[i].revoked }
    IN  IF match = {} THEN 0 ELSE CHOOSE i \in match : \A j \in match : i <= j

\* the refresh tokens handed out so far, and one that was never signed
Presentable ==
    { [sub |-> sessions[i].userId, iat |-> sessions[i].refreshTokenHash[3]] :
        i \in 1..Len(sessions) } \cup {NoToken}

InvalidRefreshToken == "Invalid refresh token"

\* login (and register): a refresh token is generated and its session stored
Login(userId) ==
    /\ Len(sessions) < MaxLogins
    /\ sessions' = StoreRefreshToken(sessions, userId, GenerateRefreshToken(userId))
    /\ UNCHANGED <<cache, checking, admitted, assets, jobRows, tasks, exec, isShuttingDown, blobs, uploading,
                   retrying, lastCall, faults, runs, exits, refreshing, now>>

\* refreshToken: verify, then findFirst; without a session the request is
\* answered 'Invalid refresh token'
RefreshFind(c, token) ==
    /\ refreshing[c].pc = "idle"
    /\ refreshing' = [refreshing EXCEPT ![c] =
          IF Verifies(token) /\ FindSession(sessions, token) # 0
          THEN [@ EXCEPT !.pc = "generate", !.refreshToken = token,
                         !.session = FindSession(sessions, token)]
          ELSE [@ EXCEPT !.pc = "rejected", !.refreshToken = token,
                         !.error = InvalidRefreshToken]]
    /\ UNCHANGED <<cache, checking, admitted, assets, jobRows, tasks, exec, isShuttingDown, blobs, uploading,
                   retrying, lastCall, faults, runs, exits, sessions, now>>

\* findUserById, then the new tokens are generated
RefreshGenerate(c) ==
    /\ refreshing[c].pc = "generate"
    /\ refreshing' = [refreshing EXCEPT ![c].pc = "revoke",
                         ![c].newRefreshToken =
                             GenerateRefreshToken(refreshing[c].refreshToken.sub)]
    /\ UNCHANGED <<cache, checking, admitted, assets, jobRows, tasks, exec, isShuttingDown, blobs, uploading,
                   retrying, lastCall, faults, runs, exits, sessions, now>>

\* session.update({where: {id}, data: {revokedAt}})
RefreshRevoke(c) ==
    /\ refreshing[c].pc = "revoke"
    /\ sessions' = [sessions EXCEPT ![refreshing[c].session].revoked = TRUE]
    /\ refreshing' = [refreshing EXCEPT ![c].pc = "store"]
    /\ UNCHANGED <<cache, checking, admitted, assets, jobRows, tasks, exec, isShuttingDown, blobs, uploading,
                   retrying, lastCall, faults, runs, exits, now>>

\* storeRefreshToken(user.id, newRefreshToken), then the new tokens are returned
RefreshStore(c) ==
    /\ refreshing[c].pc = "store"
    /\ sessions' = StoreRefreshToken(sessions, refreshing[c].refreshToken.sub,
                                     refreshing[c].newRefreshToken)
    /\ refreshing' = [refreshing EXCEPT ![c].pc = "resolved"]
    /\ UNCHANGED <<cache, checking, admitted, assets, jobRows, tasks, exec, isShuttingDown, blobs, uploading,
                   retrying, lastCall, faults, runs, exits, now>>

\* a millisecond passes
Tick ==
    /\ now < MaxNow
    /\ now' = now + 1
    /\ UNCHANGED <<cache, checking, admitted, assets, jobRows, tasks, exec, isShuttingDown, blobs, uploading,
                   retrying, lastCall, faults, runs, exits, sessions, refreshing>>

AuthNext ==
    \/ \E u \in Users : Login(u)
    \/ \E c \in Clients : \E token \in Presentable : RefreshFind(c, token)
    \/ \E c \in Clients : RefreshGenerate(c)
    \/ \E c \in Clients : RefreshRevoke(c)
    \/ \E c \in Clients : RefreshStore(c)
    \/ Tick

AuthSpec == Init /\ [][AuthNext]_vars

\* the request of client c was answered with new tokens
Exchanged(c) == refreshing[c].pc = "resolved"

\* ------------------------------------------------------------------------
\* C25: refresh-token rotation. A successful refresh returns a refresh
\* token different from the one presented and revokes the presented one, so
\* that each refresh token is exchanged successfully at most once, also when
\* two refresh requests with the same token run concurrently.
\* ------------------------------------------------------------------------
C25_ExchangedAtMostOnce ==
    \A c, d \in Clients :
        Exchanged(c) /\ Exchanged(d) /\ refreshing[c].refreshToken = refreshing[d].refreshToken
            => c = d

\* what the code does keep of C25: an answered refresh has revoked the
\* session it found, a token whose session is revoked before the request
\* starts is refused, and the new token differs from the presented one once
\* the clock has moved since the presented one was issued
C25_RevokesPresented ==
    /\ [](\A c \in Clients :
          Exchanged(c) =>
              /\ sessions[refreshing[c].session].revoked
              /\ sessions[refreshing[c].session].refreshTokenHash
                     = HashToken(refreshing[c].refreshToken)
              /\ refreshing[c].newRefreshToken.iat > refreshing[c].refreshToken.iat
                     => refreshing[c].newRefreshToken # refreshing[c].refreshToken)
    /\ [][\A c \in Clients : \A token \in Presentable :
             RefreshFind(c, token) /\ FindSession(sessions, token) = 0
                 => refreshing'[c].error = InvalidRefreshToken]_vars

\* ------------------------------------------------------------------------
\* Shutdown: the process exits once app.close() has run the shutdown hooks
\* (main.ts), whatever processMedia is doing; the lock of the job it held
\* then runs out and the queue's stalled-job check of a live worker puts the
\* job back to wait, or fails it when it stalled more than MaxStalledCount
\* times
\* ------------------------------------------------------------------------
MaxStalledCount == 1

Exited(w) == exec[w].pc = "exited"

\* workers that were told to shut down and have not exited yet
ShuttingDown == { w \in Workers : isShuttingDown[w] /\ ~Exited(w) }

\* SIGTERM or SIGINT: app.close() calls onApplicationShutdown
Shutdown(w) ==
    /\ ~Exited(w)
    /\ exits + Cardinality(ShuttingDown) < MaxExits
    /\ OnApplicationShutdown(w)

\* process.exit after the 5 s wait: the invocation in progress is lost, the
\* job stays active under its lock
Exit(w) ==
    /\ isShuttingDown[w]
    /\ ~Exited(w)
    /\ exec' = [exec EXCEPT ![w] = [Idle EXCEPT !.pc = "exited"]]
    /\ exits' = exits + 1
    /\ lastCall' = NoCall
    /\ UNCHANGED <<cache, checking, admitted, assets, jobRows, tasks, isShuttingDown, blobs, uploading,
                   retrying, faults, runs, sessions, refreshing, now>>

\* the process is started again: isShuttingDown = false
Restart(w) ==
    /\ Exited(w)
    /\ exec' = [exec EXCEPT ![w] = Idle]
    /\ isShuttingDown' = [isShuttingDown EXCEPT ![w] = FALSE]
    /\ lastCall' = NoCall
    /\ UNCHANGED <<cache, checking, admitted, assets, jobRows, tasks, blobs, uploading, retrying, faults,
                   runs, sessions, refreshing, now, exits>>

\* an active job whose lock nobody renews: its worker's process is gone
LockExpired(t) ==
    /\ t.state = "active"
    /\ Exited(t.lock) \/ exec[t.lock].jobId # t.id

\* the stalled-job check on one job
StalledJob(t) ==
    IF t.stalledCounter + 1 > MaxStalledCount
    THEN [t EXCEPT !.stalledCounter = @ + 1, !.state = "failed", !.lock = NoWorker]
    ELSE [t EXCEPT !.stalledCounter = @ + 1, !.state = "waiting", !.lock = NoWorker]

\* the stalled-job check, run by the queue of a live worker
MoveStalledJobsToWait ==
    /\ \E w \in Workers : ~Exited(w)
    /\ \E i \in 1..Len(tasks) : LockExpired(tasks[i])
    /\ tasks' = [i \in 1..Len(tasks) |->
                    IF LockExpired(tasks[i]) THEN StalledJob(tasks[i]) ELSE tasks[i]]
    /\ lastCall' = NoCall
    /\ UNCHANGED <<cache, checking, admitted, assets, jobRows, exec, isShuttingDown, blobs, uploading,
                   retrying, faults, runs, sessions, refreshing, now, exits>>

\* a live worker takes the next job
Take(w, i) == TakeJob(w, i) /\ UNCHANGED runs

\* "u/1.jpg" was uploaded, as a JPEG or as bytes that do not decode, and its
\* job is in the queue; the store and the database do not fail
ShutdownInit ==
    /\ \E bytes \in {"jpeg", "none"} : blobs = {[key |-> Key1, bytes |-> bytes]}
    /\ assets = [a \in AssetIds |->
                    [status |-> "PENDING", objectKey |-> Key1, mime |-> "image/jpeg",
                     ownerId |-> Uploader, thumbKey |-> NoKey,
                     thumbnailGenerated |-> FALSE]]
    /\ jobRows = <<>>
    /\ tasks = <<NewTask(JobIdOf("a1"),
                         [assetId |-> "a1", objectKey |-> Key1, mimeType |-> "image/jpeg"],
                         GetJobPriority("image/jpeg"))>>
    /\ exec = [w \in Workers |-> Idle]
    /\ isShuttingDown = [w \in Workers |-> FALSE]
    /\ uploading = {}
    /\ retrying = [id \in JobIds |-> 0]
    /\ lastCall = NoCall
    /\ faults = MaxFaults
    /\ runs = 0
    /\ sessions = <<>>
    /\ refreshing = [c \in Clients |-> NoRefresh]
    /\ now = 0
    /\ exits = 0
    /\ cache = NoEntry
    /\ checking = [c \in Clients |-> NotChecking]
    /\ admitted = <<>>

QueueRuns ==
    \/ \E i \in 1..Len(tasks) : PromoteDelayed(i)
    \/ \E w \in Workers, i \in 1..Len(tasks) : Take(w, i)
    \/ \E w \in Workers : Finish(w)
    \/ MoveStalledJobsToWait

ShutdownNext ==
    \/ \E i \in 1..Len(tasks) : PromoteDelayed(i)
    \/ \E w \in Workers, i \in 1..Len(tasks) : Take(w, i)
    \/ \E w \in Workers : Finish(w)
    \/ MoveStalledJobsToWait
    \/ \E w \in Workers : Start(w)
    \/ \E w \in Workers : SetProcessing(w)
    \/ \E w \in Workers : Download(w)
    \/ \E w \in Workers : Upload(w)
    \/ \E w \in Workers : SetReady(w)
    \/ \E w \in Workers : JobCompleted(w)
    \/ \E w \in Workers : CatchAsset(w)
    \/ \E w \in Workers : CatchJob(w)
    \/ \E w \in Workers : Shutdown(w)
    \/ \E w \in Workers : Exit(w)
    \/ \E w \in Workers : Restart(w)

ShutdownSpec == ShutdownInit /\ [][ShutdownNext]_vars

\* the queue runs, every live worker runs its handler, a process told to
\* shut down exits and an exited process is started again
ShutdownLiveSpec ==
    /\ ShutdownInit
    /\ [][ShutdownNext]_vars
    /\ WF_vars(QueueRuns)
    /\ \A w \in Workers : WF_vars(WorkerStep(w))
    /\ \A w \in Workers : WF_vars(Exit(w))
    /\ \A w \in Workers : WF_vars(Restart(w))

\* ------------------------------------------------------------------------
\* C26: attempts for one asset are strictly sequential. Attempt N+1 never
\* starts before the terminal state of attempt N (Asset READY/FAILED and Job
\* COMPLETED/FAILED) has been recorded, also when attempt N was abandoned at
\* shutdown or reclaimed by the queue's lock timeout.
\* ------------------------------------------------------------------------
\* an earlier attempt for asset a has begun and its terminal state is not
\* on record
Unrecorded(a) ==
    \E j \in 1..Len(jobRows) : jobRows[j].assetId = a /\ jobRows[j].state = "ACTIVE"

C26_SequentialAttempts ==
    [][\A w \in Workers, i \in 1..Len(tasks) :
          Take(w, i) => ~Unrecorded(tasks[i].data.assetId)]_vars


\* ------------------------------------------------------------------------
\* C27: shutdown liveness. A task still executing when the grace period has
\* elapsed is abandoned and the queue eventually makes it available for
\* another attempt; no task stays ACTIVE forever and its asset does not stay
\* PROCESSING forever.
\* ------------------------------------------------------------------------
\* the process that held task i has exited in the middle of the attempt
Abandoned(i) == i \in 1..Len(tasks) /\ LockExpired(tasks[i])

Available(i) == i \in 1..Len(tasks) /\ tasks[i].state = "waiting"

NoneActive == \A i \in 1..Len(tasks) : tasks[i].state # "active"

NoneProcessing ==
    \A a \in AssetIds : assets[a] # NoRow => assets[a].status # "PROCESSING"

C27_AbandonedTaskRecovers ==
    /\ \A i \in 1..1 : Abandoned(i) ~> Available(i)
    /\ []<>NoneActive
    /\ []<>NoneProcessing

\* what the code and the queue do keep of C27: an abandoned task does not
\* stay active
C27_LeavesActive == \A i \in 1..1 : Abandoned(i) ~> ~Abandoned(i) /\ tasks[i].state # "active"

C27_ReclaimedOnce == \A i \in 1..1 : Abandoned(i) /\ tasks[i].stalledCounter = 0 ~> Available(i)

\* ------------------------------------------------------------------------
\* C28: every Job row an attempt creates (ACTIVE) reaches a terminal state
\* when that attempt ends: COMPLETED on success, FAILED with lastError
\* populated on failure; no Job row remains ACTIVE after its attempt ended.
\* ------------------------------------------------------------------------
\* the attempt that created Job row j is still executing
AttemptRunning(j) == \E w \in Workers : Executing(w) /\ exec[w].dbJob = j

C28_JobRowsReachTerminal ==
    \A j \in 1..Len(jobRows) :
        /\ jobRows[j].state = "ACTIVE" => AttemptRunning(j)
        /\ jobRows[j].state = "FAILED" => jobRows[j].lastError # ""
        /\ \A w \in Workers :
              exec[w].dbJob = j /\ exec[w].pc = "resolved" => jobRows[j].state = "COMPLETED"

\* what the code does keep of C28: an attempt whose writes all succeed
\* leaves its Job row COMPLETED when it returns and FAILED with the error
\* message when it throws
C28_TerminalUnlessWriteFails ==
    \A w \in Workers :
        Settled(w) /\ exec[w].dbJob # 0 /\ exec[w].err # "I/O error"
            => jobRows[exec[w].dbJob].state =
                   (IF exec[w].pc = "resolved" THEN "COMPLETED" ELSE "FAILED")

\* ------------------------------------------------------------------------
\* C29: creating the Job audit row is best-effort. If creating the ACTIVE
\* Job row fails, processing still proceeds, the asset can still reach READY
\* (or FAILED), and no later step fails because the Job row is missing.
\* ------------------------------------------------------------------------
\* worker w takes a step of an attempt that has no Job row
StepWithoutRow(w) ==
    /\ exec[w].pc \notin {"idle", "start", "resolved", "rejected"}
    /\ exec[w].dbJob = 0
    /\ exec'[w] # exec[w]

C29_JobCreateBestEffort ==
    [][\A w \in Workers :
          /\ exec[w].pc = "start" /\ exec'[w] # exec[w] /\ ~isShuttingDown[w]
                => exec'[w].pc = "setProcessing"
          /\ StepWithoutRow(w) =>
                /\ jobRows' = jobRows
                /\ exec'[w].dbJob = 0
                /\ exec[w].pc = "setReady" /\ assets' # assets => exec'[w].pc = "resolved"
                /\ exec[w].pc = "catchAsset" /\ assets' # assets =>
                      exec'[w].pc = "rejected" /\ exec'[w].err = exec[w].err
                /\ exec'[w].err # exec[w].err =>
                      \/ faults' = faults + 1
                      \/ exec[w].pc = "download"
                           /\ ObjectAt(exec[w].objectKey).bytes = "none"]_vars

\* an attempt whose job.create failed has returned, the asset READY
C29_Witness ==
    \E w \in Workers :
        /\ exec[w].pc = "resolved"
        /\ exec[w].dbJob = 0
        /\ assets[exec[w].assetId].status = "READY"
        /\ \A j \in 1..Len(jobRows) : jobRows[j].assetId # exec[w].assetId

\* ------------------------------------------------------------------------
\* C30: Job rows record execution history. A Job row is created only when
\* the worker begins an attempt, never at enqueue time, and its attempts
\* field holds the count of execution attempts made: once the attempt has
\* executed, the recorded attempts value is at least 1.
\* ------------------------------------------------------------------------
C30_AttemptsCounted ==
    \A j \in 1..Len(jobRows) :
        jobRows[j].state \in {"COMPLETED", "FAILED"} => jobRows[j].attempts >= 1

\* what the code does keep of C30: Job rows are created by the first step of
\* an attempt only, one row per attempt, for the asset of the job in hand
C30_CreatedAtAttemptStart ==
    [][jobRows' # jobRows /\ Len(jobRows') # Len(jobRows) =>
          \E w \in Workers :
              /\ exec[w].pc = "start"
              /\ exec'[w].pc = "setProcessing"
              /\ jobRows' = Append(jobRows, jobRows'[Len(jobRows')])
              /\ jobRows'[Len(jobRows')].assetId = exec[w].assetId
              /\ jobRows'[Len(jobRows')].state = "ACTIVE"]_vars

\* ------------------------------------------------------------------------
\* C31: re-running the pipeline is idempotent. Executing the pipeline again
\* for the same asset, after a partial completion (thumbnail uploaded, Asset
\* update failed) or after a full success, yields the same thumbnail key,
\* the same set of blobs and the same final Asset status, thumbKey and meta
\* as a single successful run.
\* ------------------------------------------------------------------------
\* the objects derived from the source of row
DerivedBlobs(store, row) == { o \in store : o.key # row.objectKey }

C31_RerunIdempotent ==
    [][\A w \in Workers :
          AssetWrite(w, "setReady") =>
              LET a == exec[w].assetId
              IN  /\ assets'[a] = [assets[a] EXCEPT !.status = "READY",
                                       !.thumbKey = exec[w].thumbnailKey,
                                       !.thumbnailGenerated = TRUE]
                  /\ assets[a].thumbKey # NoKey => assets'[a].thumbKey = assets[a].thumbKey
                  /\ DerivedBlobs(blobs', assets'[a])
                        = {[key |-> assets'[a].thumbKey, bytes |-> "jpeg"]}]_vars

\* the first run uploaded the thumbnail and failed on the Asset update (the
\* object is stored, the row has no thumbKey); the second run has derived
\* the key of that object and is about to upload under it
C31_Witness ==
    \E w \in Workers :
        /\ exec[w].pc = "upload"
        /\ runs = 2
        /\ assets[exec[w].assetId].thumbKey = NoKey
        /\ DerivedBlobs(blobs, assets[exec[w].assetId])
              = {[key |-> exec[w].thumbnailKey, bytes |-> "jpeg"]}

\* the pipeline has run twice to full success
C31_RerunAfterSuccess ==
    /\ Len(jobRows) = 2
    /\ jobRows[1].state = "COMPLETED"
    /\ jobRows[2].state = "COMPLETED"

\* ------------------------------------------------------------------------
\* The pipeline over the allowed content types: an asset of each type was
\* uploaded and its job is in the queue; the store and the database do not
\* fail. A document's bytes are no raster image.
\* ------------------------------------------------------------------------
MimeTypes == {"image/jpeg", "image/png", "application/pdf", "text/plain"}

BytesOf(mimeType) ==
    IF mimeType = "image/jpeg" THEN "jpeg"
    ELSE IF mimeType = "image/png" THEN "png"
    ELSE "none"

MimeInit ==
    \E mimeType \in MimeTypes :
        /\ assets = [a \in AssetIds |->
                        [status |-> "PENDING", objectKey |-> Key1, mime |-> mimeType,
                         ownerId |-> Uploader, thumbKey |-> NoKey,
                         thumbnailGenerated |-> FALSE]]
        /\ jobRows = <<>>
        /\ tasks = <<NewTask(JobIdOf("a1"),
                             [assetId |-> "a1", objectKey |-> Key1, mimeType |-> mimeType],
                             GetJobPriority(mimeType))>>
        /\ exec = [w \in Workers |-> Idle]
        /\ isShuttingDown = [w \in Workers |-> FALSE]
        /\ blobs = {[key |-> Key1, bytes |-> BytesOf(mimeType)]}
        /\ uploading = {}
        /\ retrying = [id \in JobIds |-> 0]
        /\ lastCall = NoCall
        /\ faults = MaxFaults
        /\ runs = 0
        /\ sessions = <<>>
        /\ refreshing = [c \in Clients |-> NoRefresh]
        /\ now = 0
        /\ exits = 0
        /\ cache = NoEntry
        /\ checking = [c \in Clients |-> NotChecking]
        /\ admitted = <<>>

MimeNext ==
    \/ \E i \in 1..Len(tasks) : PromoteDelayed(i)
    \/ \E w \in Workers, i \in 1..Len(tasks) : Claim(w, i)
    \/ \E w \in Workers : Finish(w)
    \/ \E w \in Workers : Start(w)
    \/ \E w \in Workers : SetProcessing(w)
    \/ \E w \in Workers : Download(w)
    \/ \E w \in Workers : Upload(w)
    \/ \E w \in Workers : SetReady(w)
    \/ \E w \in Workers : JobCompleted(w)
    \/ \E w \in Workers : CatchAsset(w)
    \/ \E w \in Workers : CatchJob(w)

MimeSpec == MimeInit /\ [][MimeNext]_vars

\* ------------------------------------------------------------------------
\* C32: MIME branching. A task whose mimeType is application/pdf or another
\* allowed non-image type is processed without the thumbnail engine: its
\* asset reaches READY with thumbKey unset; only image/* tasks run thumbnail
\* generation and set thumbKey.
\* ------------------------------------------------------------------------
C32_DocumentsSkipThumbnail ==
    \A w \in Workers :
        Settled(w) /\ ~StartsWithImage(assets[exec[w].assetId].mime)
            => /\ exec[w].pc = "resolved"
               /\ assets[exec[w].assetId].status = "READY"
               /\ assets[exec[w].assetId].thumbKey = NoKey

\* what the code does keep of C32: an image task that returns has generated
\* a thumbnail and set thumbKey, and no other task sets thumbKey
C32_ImagesSetThumbKey ==
    /\ \A w \in Workers :
          exec[w].pc = "resolved" =>
              /\ StartsWithImage(assets[exec[w].assetId].mime)
              /\ assets[exec[w].assetId].thumbKey # NoKey
    /\ \A a \in AssetIds :
          assets[a].thumbKey # NoKey => StartsWithImage(assets[a].mime)


\* ---------------------------------------------------------------------
\* AssetsService.listAssets: cursor pagination
\* ---------------------------------------------------------------------

MaxAssets == 4
MaxLimit == 3
MaxTake == 50
NoCursor == 0
NoStatus == ""
ListStatuses == {"READY", "FAILED"}

\* where = { ownerId: userId } and, if given, where.status = status
Matches(row, userId, status) ==
    /\ row.ownerId = userId
    /\ (status = NoStatus \/ row.status = status)

RECURSIVE OrderByCreatedAtDesc(_, _)
\* orderBy: { createdAt: 'desc' } over the ids in S
OrderByCreatedAtDesc(table, S) ==
    IF S = {} THEN <<>>
    ELSE LET newest == CHOOSE a \in S :
                           \A b \in S : table[b].createdAt <= table[a].createdAt
         IN  <<newest>> \o OrderByCreatedAtDesc(table, S \ {newest})

\* the rows that where selects, in the order of orderBy
Selected(table, userId, status) ==
    OrderByCreatedAtDesc(table,
        { a \in DOMAIN table : Matches(table[a], userId, status) })

\* prisma.asset.findMany({ where, take, skip, cursor, orderBy }): the
\* window starts at the cursor row (at the first row without a cursor),
\* skip rows are dropped and at most take rows returned
FindMany(table, userId, status, take, skip, cursor) ==
    LET sorted == Selected(table, userId, status)
        at     == { i \in 1..Len(sorted) : sorted[i] = cursor }
        from   == IF cursor = NoCursor THEN 1 + skip
                  ELSE IF at = {} THEN Len(sorted) + 1
                  ELSE (CHOOSE i \in at : TRUE) + skip
    IN  SubSeq(sorted, from, Min2(Len(sorted), from + take - 1))

\* the response of listAssets for one query
ListAssetsPage(table, userId, cursor, limit, status) ==
    LET total   == Len(Selected(table, userId, status))
        take    == Min2(limit, MaxTake)
        skip    == IF cursor # NoCursor THEN 1 ELSE 0
        found   == FindMany(table, userId, status, take, skip, cursor)
        hasNext == Len(found) = take
        hasPrev == cursor # NoCursor
    IN  [assets     |-> found,
         count      |-> Len(found),
         nextCursor |-> IF hasNext /\ found # <<>>
                        THEN found[Len(found)] ELSE NoCursor,
         prevCursor |-> IF hasPrev /\ found # <<>>
                        THEN found[1] ELSE NoCursor,
         page       |-> ((total - Len(found)) \div take) + 1,
         totalPages |-> (total + take - 1) \div take,
         total      |-> total,
         hasNext    |-> hasNext,
         hasPrev    |-> hasPrev]

\* one request of a walk: seen are the assets of the pages before this
\* one, before is the page the request was issued from
Query(userId, cursor, limit, status, via, seen, before) ==
    [userId |-> userId, cursor |-> cursor, limit |-> limit,
     status |-> status, via |-> via, seen |-> seen, before |-> before]

\* the table holds up to MaxAssets rows of two owners, created one after
\* the other
ListInit ==
    /\ \E n \in 0..MaxAssets :
         \E f \in [1..n -> ListStatuses \X Users] :
            assets = [a \in 1..n |->
                        [status |-> f[a][1], ownerId |-> f[a][2],
                         createdAt |-> a]]
    /\ jobRows = <<>>
    /\ tasks = <<>>
    /\ exec = [w \in Workers |-> Idle]
    /\ isShuttingDown = [w \in Workers |-> FALSE]
    /\ blobs = {}
    /\ uploading = {}
    /\ retrying = [id \in JobIds |-> 0]
    /\ lastCall = NoCall
    /\ faults = 0
    /\ runs = 0
    /\ sessions = <<>>
    /\ refreshing = [c \in Clients |-> NoRefresh]
    /\ now = 0
    /\ exits = 0
    /\ cache = NoEntry
    /\ checking = [c \in Clients |-> NotChecking]
    /\ admitted = <<>>

ListUnchanged ==
    UNCHANGED <<cache, checking, admitted, exits, sessions, refreshing, now, assets, jobRows, tasks, exec,
                isShuttingDown, blobs, uploading, retrying, faults, runs>>

\* a client asks for the first page (no cursor)
FirstPage(userId, limit, status) ==
    /\ lastCall = NoCall
    /\ lastCall' = Call("listAssets",
                        Query(userId, NoCursor, limit, status, "first", <<>>, <<>>),
                        ListAssetsPage(assets, userId, NoCursor, limit, status))
    /\ ListUnchanged

\* the client follows nextCursor while hasNext is true
NextPage ==
    /\ lastCall.op = "listAssets"
    /\ lastCall.id.via \in {"first", "next"}
    /\ lastCall.result.hasNext
    /\ LET q == lastCall.id
           r == lastCall.result
       IN  lastCall' = Call("listAssets",
                            Query(q.userId, r.nextCursor, q.limit, q.status, "next",
                                  q.seen \o r.assets, r.assets),
                            ListAssetsPage(assets, q.userId, r.nextCursor,
                                           q.limit, q.status))
    /\ ListUnchanged

\* the client follows prevCursor of a page it reached through nextCursor
PrevPage ==
    /\ lastCall.op = "listAssets"
    /\ lastCall.id.via = "next"
    /\ lastCall.result.hasPrev
    /\ lastCall.result.prevCursor # NoCursor
    /\ LET q == lastCall.id
           r == lastCall.result
       IN  lastCall' = Call("listAssets",
                            Query(q.userId, r.prevCursor, q.limit, q.status, "prev",
                                  q.seen, q.before),
                            ListAssetsPage(assets, q.userId, r.prevCursor,
                                           q.limit, q.status))
    /\ ListUnchanged

ListNext ==
    \/ \E userId \in Users, limit \in 1..MaxLimit, status \in ListStatuses \cup {NoStatus} :
         FirstPage(userId, limit, status)
    \/ NextPage
    \/ PrevPage

ListSpec == ListInit /\ [][ListNext]_vars

\* the rows a walk has collected up to and including the current page
Walked == lastCall.id.seen \o lastCall.result.assets

\* the rows of the owner that match the filter, newest first
Expected == Selected(assets, lastCall.id.userId, lastCall.id.status)

Forward == lastCall.op = "listAssets" /\ lastCall.id.via \in {"first", "next"}

\* C33: following nextCursor from the first page while hasNext is true
\* visits every matching asset of the owner exactly once, newest first;
\* hasNext is false on the last non-empty page (true only while rows
\* remain); prevCursor of a page leads back to the preceding page.
C33_CursorPagination ==
    /\ Forward /\ ~lastCall.result.hasNext => Walked = Expected
    /\ Forward /\ lastCall.result.hasNext => Len(Walked) < Len(Expected)
    /\ lastCall.op = "listAssets" /\ lastCall.id.via = "prev"
         => lastCall.result.assets = lastCall.id.before

\* C33 (what the code does keep): the pages of a forward walk are
\* consecutive runs of the matching rows, newest first, and the walk ends
\* with all of them
C33_VisitsEachOnce ==
    Forward =>
        /\ Len(Walked) <= Len(Expected)
        /\ Walked = SubSeq(Expected, 1, Len(Walked))
        /\ ~lastCall.result.hasNext => Walked = Expected

\* C33 (part that fails): hasNext is true only while rows remain
C33_HasNextOnlyIfMore ==
    Forward /\ lastCall.result.hasNext => Len(Walked) < Len(Expected)

\* C33 (part that fails): prevCursor leads back to the preceding page
C33_PrevLeadsBack ==
    lastCall.op = "listAssets" /\ lastCall.id.via = "prev"
        => lastCall.result.assets = lastCall.id.before


\* ---------------------------------------------------------------------
\* Priority of queued tasks (JobsService.getJobPriority)
\* ---------------------------------------------------------------------
PriorityAssetIds == {"a1", "a2"}

PriorityMimes == {"image/jpeg", "application/pdf", "text/plain"}

KeyOf(a) == IF a = "a1" THEN Key1 ELSE Key2

\* two uploads were completed (Asset rows PENDING, sources stored); their
\* tasks are about to be enqueued
PriorityInit ==
    \E mimes \in [PriorityAssetIds -> PriorityMimes] :
        /\ assets = [a \in PriorityAssetIds |->
                        [status |-> "PENDING", objectKey |-> KeyOf(a),
                         mime |-> mimes[a], ownerId |-> Uploader,
                         thumbKey |-> NoKey, thumbnailGenerated |-> FALSE]]
        /\ jobRows = <<>>
        /\ tasks = <<>>
        /\ exec = [w \in Workers |-> Idle]
        /\ isShuttingDown = [w \in Workers |-> FALSE]
        /\ blobs = { [key |-> KeyOf(a), bytes |-> BytesOf(mimes[a])] :
                        a \in PriorityAssetIds }
        /\ uploading = {}
        /\ retrying = [id \in JobIds |-> 0]
        /\ lastCall = NoCall
        /\ faults = MaxFaults
        /\ runs = 0
        /\ sessions = <<>>
        /\ refreshing = [c \in Clients |-> NoRefresh]
        /\ now = 0
        /\ exits = 0
        /\ cache = NoEntry
        /\ checking = [c \in Clients |-> NotChecking]
        /\ admitted = <<>>

PriorityNext ==
    \/ \E a \in PriorityAssetIds : Enqueue(a)
    \/ \E i \in 1..Len(tasks) : PromoteDelayed(i)
    \/ \E w \in Workers, i \in 1..Len(tasks) : Claim(w, i)
    \/ \E w \in Workers : Finish(w)
    \/ \E w \in Workers : WorkerStep(w)

PrioritySpec == PriorityInit /\ [][PriorityNext]_vars

\* the three classes of getJobPriority
IsImageTask(t) == StartsWithImage(t.data.mimeType)
IsDocumentTask(t) == ~IsImageTask(t) /\ IncludesPdfOrDocument(t.data.mimeType)
IsOtherTask(t) == ~IsImageTask(t) /\ ~IsDocumentTask(t)

Waiting(q) == { i \in 1..Len(q) : q[i].state = "waiting" }

\* the task a worker took in this step
Dequeued(i) ==
    /\ i \in Waiting(tasks)
    /\ i \in 1..Len(tasks')
    /\ tasks'[i].state = "active"

ClassOf(t) ==
    IF IsImageTask(t) THEN "image"
    ELSE IF IsDocumentTask(t) THEN "document"
    ELSE "other"

\* a task of class first is being processed for the first time while a task
\* of class second, enqueued with it, is still waiting
TakenBefore(first, second) ==
    \E i, j \in 1..Len(tasks) :
        /\ ClassOf(tasks[i]) = first /\ tasks[i].state = "active"
        /\ tasks[i].attemptsMade = 0
        /\ ClassOf(tasks[j]) = second /\ tasks[j].state = "waiting"
        /\ tasks[j].attemptsMade = 0

C34_DocumentBeforeOther == TakenBefore("document", "other")

\* C34: an image task was taken while a task of another type was waiting
C34_ImageBeforeOther == TakenBefore("image", "other")


\* ---------------------------------------------------------------------
\* PENDING assets and their queue task
\* ---------------------------------------------------------------------
\* queue.add rejects (the queue's store is unreachable): completeUpload
\* rejects after prisma.asset.create has committed the PENDING row
CompleteUploadEnqueueFails(a) ==
    /\ a \in uploading
    /\ assets[a] # NoRow
    /\ CanFail
    /\ faults' = faults + 1
    /\ uploading' = uploading \ {a}
    /\ lastCall' = Call("add", JobIdOf(a), "I/O error")
    /\ UNCHANGED <<cache, checking, admitted, exits, sessions, refreshing, now, assets, jobRows, tasks, exec,
                   isShuttingDown, blobs, retrying, runs>>

OrphanNext ==
    \/ \E a \in AssetIds, dto \in Dtos : CompleteUploadCreate(a, dto, Uploader)
    \/ \E a \in AssetIds : CompleteUploadEnqueue(a)
    \/ \E a \in AssetIds : CompleteUploadEnqueueFails(a)
    \/ \E id \in JobIds : RetryCheck(id)
    \/ \E id \in JobIds : RetryCall(id)
    \/ \E id \in JobIds : RemoveJob(id)
    \/ \E i \in 1..Len(tasks) : PromoteDelayed(i)
    \/ \E w \in Workers, i \in 1..Len(tasks) : Claim(w, i)
    \/ \E w \in Workers : Finish(w)
    \/ \E w \in Workers : WorkerStep(w)

OrphanSpec == Init /\ [][OrphanNext]_vars

\* the queue holds a task for the asset that will still be run
HasOutstandingTask(q, a) ==
    \E i \in 1..Len(q) :
        /\ q[i].id = JobIdOf(a)
        /\ q[i].state \in {"waiting", "delayed", "active"}

\* C35: once completeUpload has returned or thrown, every Asset row that is
\* PENDING has a task media-<assetId> that is waiting, delayed or active.
C35_NoOrphanedPending ==
    \A a \in AssetIds :
        assets[a] # NoRow /\ assets[a].status = "PENDING" /\ a \notin uploading
            => HasOutstandingTask(tasks, a)

\* C35 (what the code does keep): a completeUpload whose enqueue succeeds
\* leaves the PENDING asset with an outstanding task
C35_EnqueuedWhenCompleted ==
    [][\A a \in AssetIds :
          a \in uploading /\ a \notin uploading' /\ lastCall'.result = "ok"
              => HasOutstandingTask(tasks', a)]_vars


\* ---------------------------------------------------------------------
\* deleteAsset while the asset's task is being processed
\* ---------------------------------------------------------------------
RowGone(w) ==
    exec[w].assetId \in DOMAIN assets /\ assets[exec[w].assetId] = NoRow

JobRowGone(w) == exec[w].dbJob \notin 1..Len(jobRows)

ObjectGone(key) == \A o \in blobs : o.key # key

RecordNotFound == "Record to update not found"

\* prisma.job.create for an asset that no longer exists violates the
\* foreign key; the processor logs the error and goes on without a row
StartAfterDelete(w) ==
    /\ exec[w].pc = "start"
    /\ ~isShuttingDown[w]
    /\ RowGone(w)
    /\ exec' = [exec EXCEPT ![w].pc = "setProcessing"]
    /\ lastCall' = NoCall
    /\ UNCHANGED <<cache, checking, admitted, exits, sessions, refreshing, now, assets, jobRows, tasks,
                   isShuttingDown, blobs, uploading, retrying, faults, runs>>

\* prisma.asset.update of a row that no longer exists rejects: inside the
\* try block the catch block takes over, inside the catch block the
\* handler rejects at once
AssetUpdateAfterDelete(w) ==
    /\ exec[w].pc \in {"setProcessing", "setReady", "catchAsset"}
    /\ RowGone(w)
    /\ exec' = [exec EXCEPT ![w] =
                  IF exec[w].pc = "catchAsset"
                  THEN [exec[w] EXCEPT !.pc = "rejected", !.err = RecordNotFound]
                  ELSE Caught(w, RecordNotFound)]
    /\ lastCall' = NoCall
    /\ UNCHANGED <<cache, checking, admitted, exits, sessions, refreshing, now, assets, jobRows, tasks,
                   isShuttingDown, blobs, uploading, retrying, faults, runs>>

\* prisma.job.update of a Job row that went with its asset rejects
JobUpdateAfterDelete(w) ==
    /\ exec[w].pc \in {"jobCompleted", "catchJob"}
    /\ JobRowGone(w)
    /\ exec' = [exec EXCEPT ![w] =
                  IF exec[w].pc = "catchJob"
                  THEN [exec[w] EXCEPT !.pc = "rejected", !.err = RecordNotFound]
                  ELSE Caught(w, RecordNotFound)]
    /\ lastCall' = NoCall
    /\ UNCHANGED <<cache, checking, admitted, exits, sessions, refreshing, now, assets, jobRows, tasks,
                   isShuttingDown, blobs, uploading, retrying, faults, runs>>

\* s3Service.downloadObjectAsBuffer of a deleted source rejects
DownloadAfterDelete(w) ==
    /\ exec[w].pc = "download"
    /\ ObjectGone(exec[w].objectKey)
    /\ exec' = [exec EXCEPT ![w] = Caught(w, "NoSuchKey")]
    /\ lastCall' = NoCall
    /\ UNCHANGED <<cache, checking, admitted, exits, sessions, refreshing, now, assets, jobRows, tasks,
                   isShuttingDown, blobs, uploading, retrying, faults, runs>>

\* a deleteAsset of the owner in which the object store and the database
\* answer every call
DeleteAssetDone(a) ==
    /\ DeleteAsset(a, Uploader)
    /\ lastCall'.result = "deleted"

\* the asset's upload was completed and its task is queued
DeleteInit ==
    /\ \E bytes \in {"jpeg", "none"} : blobs = {[key |-> Key1, bytes |-> bytes]}
    /\ assets = [a \in AssetIds |->
                    [status |-> "PENDING", objectKey |-> Key1, mime |-> "image/jpeg",
                     ownerId |-> Uploader, thumbKey |-> NoKey,
                     thumbnailGenerated |-> FALSE]]
    /\ jobRows = <<>>
    /\ tasks = <<NewTask(JobIdOf("a1"),
                         [assetId |-> "a1", objectKey |-> Key1, mimeType |-> "image/jpeg"],
                         GetJobPriority("image/jpeg"))>>
    /\ exec = [w \in Workers |-> Idle]
    /\ isShuttingDown = [w \in Workers |-> FALSE]
    /\ uploading = {}
    /\ retrying = [id \in JobIds |-> 0]
    /\ lastCall = NoCall
    /\ faults = MaxFaults
    /\ runs = 0
    /\ sessions = <<>>
    /\ refreshing = [c \in Clients |-> NoRefresh]
    /\ now = 0
    /\ exits = 0
    /\ cache = NoEntry
    /\ checking = [c \in Clients |-> NotChecking]
    /\ admitted = <<>>

DeleteNext ==
    \/ \E a \in AssetIds : DeleteAssetDone(a)
    \/ \E i \in 1..Len(tasks) : PromoteDelayed(i)
    \/ \E w \in Workers, i \in 1..Len(tasks) : Claim(w, i)
    \/ \E w \in Workers : Finish(w)
    \/ \E w \in Workers : Start(w) /\ ~RowGone(w)
    \/ \E w \in Workers : SetProcessing(w) /\ ~RowGone(w)
    \/ \E w \in Workers : ~ObjectGone(exec[w].objectKey) /\ Download(w)
    \/ \E w \in Workers : Upload(w)
    \/ \E w \in Workers : SetReady(w) /\ ~RowGone(w)
    \/ \E w \in Workers : JobCompleted(w) /\ ~JobRowGone(w)
    \/ \E w \in Workers : CatchAsset(w) /\ ~RowGone(w)
    \/ \E w \in Workers : CatchJob(w) /\ ~JobRowGone(w)
    \/ \E w \in Workers : StartAfterDelete(w)
    \/ \E w \in Workers : AssetUpdateAfterDelete(w)
    \/ \E w \in Workers : JobUpdateAfterDelete(w)
    \/ \E w \in Workers : DownloadAfterDelete(w)

DeleteSpec == DeleteInit /\ [][DeleteNext]_vars

\* the asset was deleted and its task has run to its end
DeletedAndDone(a) ==
    /\ assets[a] = NoRow
    /\ \A w \in Workers : exec[w].pc = "idle"
    /\ ~HasOutstandingTask(tasks, a)

\* C36: once an asset is deleted and its task has finished, no Job row of
\* the asset exists and the object store holds nothing derived from it,
\* whenever the deletion came.
C36_NothingLeftBehind ==
    \A a \in AssetIds :
        DeletedAndDone(a) =>
            /\ \A i \in 1..Len(jobRows) : jobRows[i].assetId # a
            /\ blobs = {}

\* C36 (what the code does keep): a deleted asset has no Job row, and none
\* is created for it afterwards
C36_NoRowsLeft ==
    \A a \in AssetIds :
        assets[a] = NoRow => \A i \in 1..Len(jobRows) : jobRows[i].assetId # a

\* C36: the state the race ends in: the rows are gone, the task has used
\* up its attempts, and the thumbnail written after the deletion is stored
C36_ThumbnailLeft ==
    /\ DeletedAndDone("a1")
    /\ blobs = {[key |-> GenerateThumbnailKey(Key1, "jpeg"), bytes |-> "jpeg"]}


\* ---------------------------------------------------------------------
\* ThumbnailService.calculateOptimalDimensions on its own
\* ---------------------------------------------------------------------
DimSourceSizes == SourceSizes \cup {1000}

DimInputs ==
    { [originalWidth |-> ow, originalHeight |-> oh, maxWidth |-> mw, maxHeight |-> mh] :
        ow \in DimSourceSizes, oh \in DimSourceSizes,
        mw \in TargetSizes, mh \in TargetSizes }

\* a call with positive source dimensions and positive bounds is pending
DimInit ==
    /\ assets = [a \in AssetIds |-> NoRow]
    /\ jobRows = <<>>
    /\ tasks = <<>>
    /\ exec = [w \in Workers |-> Idle]
    /\ isShuttingDown = [w \in Workers |-> FALSE]
    /\ blobs = {}
    /\ uploading = {}
    /\ retrying = [id \in JobIds |-> 0]
    /\ \E in \in DimInputs : lastCall = Call("calculateOptimalDimensions", in, Pending)
    /\ faults = 0
    /\ runs = 0
    /\ sessions = <<>>
    /\ refreshing = [c \in Clients |-> NoRefresh]
    /\ now = 0
    /\ exits = 0
    /\ cache = NoEntry
    /\ checking = [c \in Clients |-> NotChecking]
    /\ admitted = <<>>

CalculateOptimalDimensionsCall ==
    /\ lastCall.op = "calculateOptimalDimensions"
    /\ lastCall.result = Pending
    /\ lastCall' = [lastCall EXCEPT !.result =
                       CalculateOptimalDimensions(lastCall.id.originalWidth,
                                                  lastCall.id.originalHeight,
                                                  lastCall.id.maxWidth,
                                                  lastCall.id.maxHeight)]
    /\ UNCHANGED <<cache, checking, admitted, exits, sessions, refreshing, now, assets, jobRows, tasks, exec,
                   isShuttingDown, blobs, uploading, retrying, faults, runs>>

DimNext == CalculateOptimalDimensionsCall

DimSpec == DimInit /\ [][DimNext]_vars

\* C37: for positive source dimensions and positive bounds the returned
\* width lies in 1..maxWidth and the returned height in 1..maxHeight.
C37_DimensionsInBounds ==
    Returned("calculateOptimalDimensions") =>
        /\ lastCall.result.width \in 1..lastCall.id.maxWidth
        /\ lastCall.result.height \in 1..lastCall.id.maxHeight

\* C37 (what the code does keep): neither bound is exceeded
C37_BoundsNotExceeded ==
    Returned("calculateOptimalDimensions") =>
        /\ lastCall.result.width \in 0..lastCall.id.maxWidth
        /\ lastCall.result.height \in 0..lastCall.id.maxHeight

\* C37: a 1000x1 source under the default 300x300 bound
\* comes back with height 0
C37_ZeroHeight ==
    /\ Returned("calculateOptimalDimensions")
    /\ lastCall.id = [originalWidth |-> 1000, originalHeight |-> 1,
                      maxWidth |-> DefaultWidth, maxHeight |-> DefaultHeight]
    /\ lastCall.result = [width |-> DefaultWidth, height |-> 0]


\* ---------------------------------------------------------------------
\* RateLimitInterceptor.checkRateLimit for one rate-limit key
\* ---------------------------------------------------------------------
\* getRateLimitOptions for /auth/login: { ttl: 60, limit: 5 }
AuthTtl == 60
AuthLimit == 5

MaxRequests == 7
MaxTicks == 3

\* the ttl in the clock's unit
Window == AuthTtl * 1000

\* cacheService.get(key) || 0: the stored counter, 0 once the key expired
CacheGet == IF now < cache.expires THEN cache.value ELSE 0

\* cacheService.set(key, value, ttl): SETEX restarts the key's lifetime
CacheSet(value, ttl) == [value |-> value, expires |-> now + ttl * 1000]

InProgress == { c \in Clients : checking[c].pc # "idle" }

RateUnchanged ==
    UNCHANGED <<assets, jobRows, tasks, exec, isShuttingDown, blobs, uploading,
                retrying, faults, runs, sessions, refreshing, exits>>

\* a request for the key arrives: const currentCount = (await get(key)) || 0
ReadCount(c) ==
    /\ checking[c].pc = "idle"
    /\ Len(admitted) + Cardinality(InProgress) < MaxRequests
    /\ checking' = [checking EXCEPT ![c] = [pc |-> "read", currentCount |-> CacheGet]]
    /\ lastCall' = NoCall
    /\ UNCHANGED <<cache, admitted, now>>
    /\ RateUnchanged

\* currentCount >= options.limit: 429 Too Many Requests
Exceeded(c) ==
    /\ checking[c].pc = "read"
    /\ checking[c].currentCount >= AuthLimit
    /\ checking' = [checking EXCEPT ![c] = NotChecking]
    /\ lastCall' = Call("checkRateLimit", c, "Too Many Requests")
    /\ UNCHANGED <<cache, admitted, now>>
    /\ RateUnchanged

\* await set(key, currentCount + 1, options.ttl); the request goes on to
\* its handler
Increment(c) ==
    /\ checking[c].pc = "read"
    /\ checking[c].currentCount < AuthLimit
    /\ cache' = CacheSet(checking[c].currentCount + 1, AuthTtl)
    /\ admitted' = Append(admitted, now)
    /\ checking' = [checking EXCEPT ![c] = NotChecking]
    /\ lastCall' = Call("checkRateLimit", c, "ok")
    /\ UNCHANGED now
    /\ RateUnchanged

\* half a window passes
RateTick ==
    /\ now < MaxTicks * (Window \div 2)
    /\ now' = now + (Window \div 2)
    /\ lastCall' = NoCall
    /\ UNCHANGED <<cache, checking, admitted>>
    /\ RateUnchanged

RateNext ==
    \/ \E c \in Clients : ReadCount(c)
    \/ \E c \in Clients : Exceeded(c)
    \/ \E c \in Clients : Increment(c)
    \/ RateTick

RateSpec == Init /\ [][RateNext]_vars

\* the same requests arriving one after the other
RateSeqNext ==
    \/ \E c \in Clients : InProgress = {} /\ ReadCount(c)
    \/ \E c \in Clients : Exceeded(c)
    \/ \E c \in Clients : Increment(c)
    \/ RateTick

RateSeqSpec == Init /\ [][RateSeqNext]_vars

\* the requests let through in the window that starts at t
AdmittedIn(t) ==
    { i \in 1..Len(admitted) : admitted[i] >= t /\ admitted[i] < t + Window }

\* C38: no window of ttl seconds holds more than limit admitted requests
\* of one key, also when the checks of several requests interleave.
C38_AtMostLimitPerWindow ==
    \A i \in 1..Len(admitted) : Cardinality(AdmittedIn(admitted[i])) <= AuthLimit

\* C38 (what the code does keep): the stored counter never exceeds limit
C38_CounterAtMostLimit == cache.value <= AuthLimit

\* C38: two checks read the counter at limit - 1 and both let their
\* request pass
C38_BothAdmitted ==
    /\ Len(admitted) = AuthLimit + 1
    /\ Cardinality(AdmittedIn(admitted[1])) = AuthLimit + 1
    /\ cache.value = AuthLimit

====
